---- MODULE Spec2Model ----
(***************************************************************************)
(* NEXIFY backend: the similarity engine (utils/ai_engine.py), the          *)
(* authentication manager and decorators (utils/auth.py), the               *)
(* authentication routes (routes/auth.py) and the connection routes         *)
(* (routes/connections.py), as one state machine.                           *)
(*                                                                          *)
(* Python strings are sequences of character codes (Latin-1), so that       *)
(* lower(), split(), replace() and the substring test are computed and not  *)
(* assumed.  Python floats are exact rationals <<numerator, denominator>>.  *)
(***************************************************************************)
EXTENDS Integers, Sequences, FiniteSets, TLC

\* Python None, where a string is expected (comparable with every string).
NULL == <<-1>>

-----------------------------------------------------------------------------
\* Strings

\* str.lower() on one Latin-1 character
LowerChar(c) ==
  IF (c >= 65 /\ c <= 90) \/ (c >= 192 /\ c <= 222 /\ c # 215) THEN c + 32 ELSE c

str_lower(s) == [i \in 1..Len(s) |-> LowerChar(s[i])]

\* Python's `sub in s`
str_contains(sub, s) ==
  \E i \in 0..(Len(s) - Len(sub)) : SubSeq(s, i + 1, i + Len(sub)) = sub

\* s.replace(',', ' ')
str_replace_comma(s) == [i \in 1..Len(s) |-> IF s[i] = 44 THEN 32 ELSE s[i]]

\* str.isspace() on one Latin-1 character
IsSpace(c) == c \in {9, 10, 11, 12, 13, 28, 29, 30, 31, 32, 133, 160}

\* set(s.split()): the maximal runs of non-whitespace characters
str_split_set(s) ==
  { SubSeq(s, i, j) : <<i, j>> \in
      { p \in (1..Len(s)) \X (1..Len(s)) :
          /\ p[1] <= p[2]
          /\ \A k \in p[1]..p[2] : ~IsSpace(s[k])
          /\ (p[1] = 1 \/ IsSpace(s[p[1] - 1]))
          /\ (p[2] = Len(s) \/ IsSpace(s[p[2] + 1])) } }

\* str.isupper(), str.islower(), str.isdigit() on one Latin-1 character
IsUpper(c) == (c >= 65 /\ c <= 90) \/ (c >= 192 /\ c <= 222 /\ c # 215)

IsLower(c) ==
  (c >= 97 /\ c <= 122) \/ c \in {170, 181, 186} \/ (c >= 223 /\ c <= 255 /\ c # 247)

IsDigit(c) == (c >= 48 /\ c <= 57) \/ c \in {178, 179, 185}

Chars(s) == { s[i] : i \in 1..Len(s) }

RECURSIVE Repeat(_, _)
Repeat(c, n) == IF n = 0 THEN <<>> ELSE <<c>> \o Repeat(c, n - 1)

-----------------------------------------------------------------------------
\* Rationals (Python floats), always in lowest terms with a positive denominator

RECURSIVE GCD(_, _)
GCD(a, b) == IF b = 0 THEN a ELSE GCD(b, a % b)

Rat(n, d) == LET g == GCD(n, d) IN IF n = 0 THEN <<0, 1>> ELSE <<n \div g, d \div g>>

RAdd(x, y) == Rat(x[1] * y[2] + y[1] * x[2], x[2] * y[2])

RMul(x, y) == Rat(x[1] * y[1], x[2] * y[2])

RLeq(x, y) == x[1] * y[2] <= y[1] * x[2]

RLess(x, y) == x[1] * y[2] < y[1] * x[2]

RMin(x, y) == IF RLeq(x, y) THEN x ELSE y

Max(a, b) == IF a >= b THEN a ELSE b

\* f"{x:.2f}": x in hundredths, ties to even
Format2f(x) ==
  LET q == (x[1] * 100) \div x[2]
      r == (x[1] * 100) % x[2]
  IN  IF 2 * r > x[2] \/ (2 * r = x[2] /\ q % 2 = 1) THEN q + 1 ELSE q

-----------------------------------------------------------------------------
\* AIEngine.__init__: the keyword table and the platform weights

Categories == {"tecnologia", "marketing", "finanzas", "salud", "educacion", "consultoria"}

InitIndustryKeywords ==
  [category \in Categories |->
    CASE category = "tecnologia" ->
          {
            <<116, 101, 99, 104>>,   \* tech
            <<115, 111, 102, 116, 119, 97, 114, 101>>,   \* software
            <<100, 101, 115, 97, 114, 114, 111, 108, 108, 111>>,   \* desarrollo
            <<112, 114, 111, 103, 114, 97, 109, 97, 99, 105, 243, 110>>,   \* programacion
            <<97, 105>>,   \* ai
            <<105, 97>>,   \* ia
            <<100, 97, 116, 111, 115>>,   \* datos
            <<100, 105, 103, 105, 116, 97, 108>>   \* digital
          }
      [] category = "marketing" ->
          {
            <<109, 97, 114, 107, 101, 116, 105, 110, 103>>,   \* marketing
            <<112, 117, 98, 108, 105, 99, 105, 100, 97, 100>>,   \* publicidad
            <<115, 111, 99, 105, 97, 108, 32, 109, 101, 100, 105, 97>>,   \* social media
            <<99, 111, 110, 116, 101, 110, 105, 100, 111>>,   \* contenido
            <<98, 114, 97, 110, 100, 105, 110, 103>>   \* branding
          }
      [] category = "finanzas" ->
          {
            <<102, 105, 110, 97, 110, 122, 97, 115>>,   \* finanzas
            <<98, 97, 110, 99, 97>>,   \* banca
            <<105, 110, 118, 101, 114, 115, 105, 243, 110>>,   \* inversion
            <<99, 111, 110, 116, 97, 98, 105, 108, 105, 100, 97, 100>>,   \* contabilidad
            <<101, 99, 111, 110, 111, 109, 237, 97>>   \* economia
          }
      [] category = "salud" ->
          {
            <<115, 97, 108, 117, 100>>,   \* salud
            <<109, 101, 100, 105, 99, 105, 110, 97>>,   \* medicina
            <<102, 97, 114, 109, 97, 99, 105, 97>>,   \* farmacia
            <<104, 111, 115, 112, 105, 116, 97, 108>>,   \* hospital
            <<99, 108, 237, 110, 105, 99, 97>>   \* clinica
          }
      [] category = "educacion" ->
          {
            <<101, 100, 117, 99, 97, 99, 105, 243, 110>>,   \* educacion
            <<117, 110, 105, 118, 101, 114, 115, 105, 100, 97, 100>>,   \* universidad
            <<101, 110, 115, 101, 241, 97, 110, 122, 97>>,   \* ensenanza
            <<102, 111, 114, 109, 97, 99, 105, 243, 110>>,   \* formacion
            <<97, 99, 97, 100, 101, 109, 105, 97>>   \* academia
          }
      [] category = "consultoria" ->
          {
            <<99, 111, 110, 115, 117, 108, 116, 111, 114, 237, 97>>,   \* consultoria
            <<97, 115, 101, 115, 111, 114, 237, 97>>,   \* asesoria
            <<101, 115, 116, 114, 97, 116, 101, 103, 105, 97>>,   \* estrategia
            <<103, 101, 115, 116, 105, 243, 110>>,   \* gestion
            <<110, 101, 103, 111, 99, 105, 111, 115>>   \* negocios
          }]

senior_keywords ==
  {
    <<99, 101, 111>>,   \* ceo
    <<99, 116, 111>>,   \* cto
    <<99, 102, 111>>,   \* cfo
    <<100, 105, 114, 101, 99, 116, 111, 114>>,   \* director
    <<103, 101, 114, 101, 110, 116, 101>>,   \* gerente
    <<109, 97, 110, 97, 103, 101, 114>>,   \* manager
    <<108, 101, 97, 100>>,   \* lead
    <<115, 101, 110, 105, 111, 114>>   \* senior
  }

mid_keywords ==
  {
    <<97, 110, 97, 108, 105, 115, 116, 97>>,   \* analista
    <<101, 115, 112, 101, 99, 105, 97, 108, 105, 115, 116, 97>>,   \* especialista
    <<99, 111, 111, 114, 100, 105, 110, 97, 116, 111, 114>>,   \* coordinator
    <<115, 117, 112, 101, 114, 118, 105, 115, 111, 114>>   \* supervisor
  }

junior_keywords ==
  {
    <<106, 117, 110, 105, 111, 114>>,   \* junior
    <<97, 115, 105, 115, 116, 101, 110, 116, 101>>,   \* asistente
    <<116, 114, 97, 105, 110, 101, 101>>,   \* trainee
    <<105, 110, 116, 101, 114, 110>>   \* intern
  }

\* The strings the contact fields are drawn from

Str_empty == <<>>

Str_Tech == <<84, 101, 99, 104>>   \* 'Tech'

Str_tech_lower == <<116, 101, 99, 104>>   \* 'tech'

Str_Software == <<83, 111, 102, 116, 119, 97, 114, 101>>   \* 'Software'

Str_Legal == <<76, 101, 103, 97, 108>>   \* 'Legal'

Str_LegalServices == <<76, 101, 103, 97, 108, 32, 83, 101, 114, 118, 105, 99, 101, 115>>   \* 'Legal Services'

Str_Madrid == <<77, 97, 100, 114, 105, 100>>   \* 'Madrid'

Str_madrid_lower == <<109, 97, 100, 114, 105, 100>>   \* 'madrid'

Str_MadridSpain == <<77, 97, 100, 114, 105, 100, 44, 32, 83, 112, 97, 105, 110>>   \* 'Madrid, Spain'

Str_SpainMadrid == <<83, 112, 97, 105, 110, 32, 77, 97, 100, 114, 105, 100>>   \* 'Spain Madrid'

Str_Acme == <<65, 99, 109, 101>>   \* 'Acme'

Str_AcmeLabs == <<65, 99, 109, 101, 32, 76, 97, 98, 115>>   \* 'Acme Labs'

Str_Globex == <<71, 108, 111, 98, 101, 120>>   \* 'Globex'

Str_CEO == <<67, 69, 79>>   \* 'CEO'

Str_Analista == <<65, 110, 97, 108, 105, 115, 116, 97>>   \* 'Analista'

Str_Intern == <<73, 110, 116, 101, 114, 110>>   \* 'Intern'

Str_Chef == <<67, 104, 101, 102>>   \* 'Chef'

IndustryValues ==
  {NULL, Str_empty, Str_Tech, Str_tech_lower, Str_Software, Str_Legal, Str_LegalServices}

LocationValues ==
  {NULL, Str_empty, Str_Madrid, Str_madrid_lower, Str_MadridSpain, Str_SpainMadrid}

CompanyValues ==
  {NULL, Str_empty, Str_Acme, Str_AcmeLabs, Str_Globex}

PositionValues ==
  {NULL, Str_empty, Str_CEO, Str_Analista, Str_Intern, Str_Chef}
InitPlatformWeights ==
  [p \in {"linkedin", "facebook", "instagram", "tiktok"} |->
     CASE p = "linkedin" -> Rat(10, 10)
       [] p = "facebook" -> Rat(7, 10)
       [] p = "instagram" -> Rat(8, 10)
       [] p = "tiktok" -> Rat(6, 10)]

SocialValues ==
  { <<>>,
    <<[platform |-> "linkedin"]>>,
    <<[platform |-> "linkedin"], [platform |-> "tiktok"]>>,
    <<[platform |-> "myspace"]>> }

-----------------------------------------------------------------------------
\* AIEngine: the five factor scores

_calculate_industry_similarity(kw, contact1, contact2) ==
  LET industry1 == str_lower(contact1.industry)
      industry2 == str_lower(contact2.industry)
      words1 == str_split_set(industry1)
      words2 == str_split_set(industry2)
      common_words == words1 \cap words2
  IN  IF industry1 = <<>> \/ industry2 = <<>> THEN Rat(0, 1)
      ELSE IF industry1 = industry2 THEN Rat(1, 1)
      ELSE IF \E category \in DOMAIN kw :
                /\ \E keyword \in kw[category] : str_contains(keyword, industry1)
                /\ \E keyword \in kw[category] : str_contains(keyword, industry2)
           THEN Rat(7, 10)
      ELSE IF common_words # {}
           THEN Rat(Cardinality(common_words),
                    Max(Cardinality(words1), Cardinality(words2)))
      ELSE Rat(0, 1)

_calculate_location_similarity(contact1, contact2) ==
  LET location1 == str_lower(contact1.location)
      location2 == str_lower(contact2.location)
      words1 == str_split_set(str_replace_comma(location1))
      words2 == str_split_set(str_replace_comma(location2))
      common_words == words1 \cap words2
  IN  IF location1 = <<>> \/ location2 = <<>> THEN Rat(0, 1)
      ELSE IF location1 = location2 THEN Rat(1, 1)
      ELSE IF common_words # {}
           THEN (IF Cardinality(common_words) >= 2 THEN Rat(8, 10) ELSE Rat(5, 10))
      ELSE Rat(0, 1)

_calculate_company_similarity(contact1, contact2) ==
  LET company1 == str_lower(contact1.company)
      company2 == str_lower(contact2.company)
  IN  IF company1 = <<>> \/ company2 = <<>> THEN Rat(0, 1)
      ELSE IF company1 = company2 THEN Rat(1, 1)
      ELSE IF str_contains(company1, company2) \/ str_contains(company2, company1)
           THEN Rat(6, 10)
      ELSE Rat(0, 1)

\* self.platform_weights.get(platform, 0.5)
platform_weight(pw, platform) ==
  IF platform \in DOMAIN pw THEN pw[platform] ELSE Rat(5, 10)

RECURSIVE SumWeights(_, _)
SumWeights(pw, platforms) ==
  IF platforms = {} THEN Rat(0, 1)
  ELSE LET p == CHOOSE x \in platforms : TRUE
       IN  RAdd(platform_weight(pw, p), SumWeights(pw, platforms \ {p}))

_calculate_social_similarity(pw, contact1, contact2) ==
  LET profiles1 == contact1.social_profiles
      profiles2 == contact2.social_profiles
      platforms1 == { profiles1[i].platform : i \in 1..Len(profiles1) }
      platforms2 == { profiles2[i].platform : i \in 1..Len(profiles2) }
      common_platforms == platforms1 \cap platforms2
      total_weight == SumWeights(pw, platforms1 \cup platforms2)
      common_weight == SumWeights(pw, common_platforms)
  IN  IF profiles1 = <<>> \/ profiles2 = <<>> THEN Rat(0, 1)
      ELSE IF common_platforms = {} THEN Rat(0, 1)
      ELSE IF RLess(Rat(0, 1), total_weight)
           THEN Rat(common_weight[1] * total_weight[2], common_weight[2] * total_weight[1])
      ELSE Rat(0, 1)

\* 0 = junior, 1 = mid (also the default), 2 = senior
_get_professional_level(position) ==
  IF \E keyword \in senior_keywords : str_contains(keyword, position) THEN 2
  ELSE IF \E keyword \in mid_keywords : str_contains(keyword, position) THEN 1
  ELSE IF \E keyword \in junior_keywords : str_contains(keyword, position) THEN 0
  ELSE 1

_calculate_professional_level_similarity(contact1, contact2) ==
  LET position1 == str_lower(contact1.position)
      position2 == str_lower(contact2.position)
      level1 == _get_professional_level(position1)
      level2 == _get_professional_level(position2)
  IN  IF position1 = <<>> \/ position2 = <<>> THEN Rat(0, 1)
      ELSE IF level1 = level2 THEN Rat(8, 10)
      ELSE IF level1 - level2 \in {1, -1} THEN Rat(4, 10)
      ELSE Rat(0, 1)

_get_recommendation_strength(score) ==
  IF RLeq(Rat(8, 10), score) THEN "muy_alta"
  ELSE IF RLeq(Rat(6, 10), score) THEN "alta"
  ELSE IF RLeq(Rat(4, 10), score) THEN "media"
  ELSE IF RLeq(Rat(2, 10), score) THEN "baja"
  ELSE "muy_baja"
\* analyze_contact_similarity: contact.get(field, '') is None for a field that is
\* present with the value None, and None.lower() raises AttributeError.
analyze_contact_similarity(kw, pw, contact1, contact2) ==
  LET industry_score == _calculate_industry_similarity(kw, contact1, contact2)
      location_score == _calculate_location_similarity(contact1, contact2)
      company_score == _calculate_company_similarity(contact1, contact2)
      social_score == _calculate_social_similarity(pw, contact1, contact2)
      level_score == _calculate_professional_level_similarity(contact1, contact2)
      similarity_score ==
        RAdd(RAdd(RAdd(RAdd(RMul(industry_score, Rat(3, 10)),
                            RMul(location_score, Rat(25, 100))),
                       RMul(company_score, Rat(2, 10))),
                  RMul(social_score, Rat(15, 100))),
             RMul(level_score, Rat(1, 10)))
      candidates ==
        << [label |-> "Industria similar", score |-> industry_score],
           [label |-> "Ubicacion similar", score |-> location_score],
           [label |-> "Empresa relacionada", score |-> company_score],
           [label |-> "Presencia social similar", score |-> social_score],
           [label |-> "Nivel profesional similar", score |-> level_score] >>
      positive == SelectSeq(candidates, LAMBDA f : RLess(Rat(0, 1), f.score))
  IN  IF \E c \in {contact1, contact2} :
           NULL \in {c.industry, c.location, c.company, c.position}
      THEN [raised |-> "AttributeError", similarity_score |-> Rat(0, 1),
            factors |-> <<>>, recommendation_strength |-> ""]
      ELSE [raised |-> "",
            similarity_score |-> RMin(similarity_score, Rat(1, 1)),
            factors |-> [i \in 1..Len(positive) |->
                           [label |-> positive[i].label,
                            text |-> Format2f(positive[i].score)]],
            recommendation_strength |-> _get_recommendation_strength(similarity_score)]

-----------------------------------------------------------------------------
\* The contact records the engine is called with

BaseContact ==
  [industry |-> Str_Tech, location |-> Str_Madrid, company |-> Str_Acme,
   position |-> Str_CEO, social_profiles |-> <<[platform |-> "linkedin"]>>]

OneFieldContacts ==
  { [BaseContact EXCEPT !.industry = v] : v \in IndustryValues }
  \cup { [BaseContact EXCEPT !.location = v] : v \in LocationValues }
  \cup { [BaseContact EXCEPT !.company = v] : v \in CompanyValues }
  \cup { [BaseContact EXCEPT !.position = v] : v \in PositionValues }
  \cup { [BaseContact EXCEPT !.social_profiles = v] : v \in SocialValues }

ComboContacts ==
  [industry : {Str_Software, Str_LegalServices},
   location : {Str_empty, Str_SpainMadrid},
   company : {Str_AcmeLabs, Str_Globex},
   position : {Str_Intern, Str_Analista},
   social_profiles : {<<>>, <<[platform |-> "linkedin"], [platform |-> "tiktok"]>>}]

SimContacts == OneFieldContacts \cup ComboContacts

\* The calls that may be remembered for the comparison of two equal calls
ProbeContacts ==
  { BaseContact,
    [BaseContact EXCEPT !.industry = NULL],
    [BaseContact EXCEPT !.social_profiles = <<[platform |-> "myspace"]>>],
    [industry |-> Str_LegalServices, location |-> Str_SpainMadrid,
     company |-> Str_AcmeLabs, position |-> Str_Intern,
     social_profiles |-> <<[platform |-> "linkedin"], [platform |-> "tiktok"]>>] }

\* The first call of a run is drawn from all the contact records, the later
\* ones from the remembered ones; a run makes at most MaxSimCalls calls.
MaxSimCalls == 3

SimDomain(k) == IF k = 0 THEN SimContacts ELSE ProbeContacts

VARIABLES
  industry_keywords,   \* AIEngine.industry_keywords
  platform_weights,    \* AIEngine.platform_weights
  sim_call,            \* the last analyze_contact_similarity call: arguments before and after, result
  sim_first,           \* an earlier call, remembered
  sim_calls            \* the number of calls made

NoResult ==
  [raised |-> "", similarity_score |-> Rat(0, 1), factors |-> <<>>,
   recommendation_strength |-> ""]

NoCall ==
  [called |-> FALSE, contact1 |-> BaseContact, contact2 |-> BaseContact,
   contact1_after |-> BaseContact, contact2_after |-> BaseContact,
   result |-> NoResult]

\* A lookup that stores its default: self.platform_weights.setdefault(platform, 0.5)
AnalyzeContactSimilarity_setdefault(contact1, contact2) ==
  LET seen == { contact1.social_profiles[i].platform : i \in 1..Len(contact1.social_profiles) }
              \cup { contact2.social_profiles[i].platform : i \in 1..Len(contact2.social_profiles) }
  IN  /\ sim_calls < MaxSimCalls
      /\ sim_calls = 0 \/ sim_first.called
      /\ sim_calls' = sim_calls + 1
      /\ sim_call' =
           [called |-> TRUE, contact1 |-> contact1, contact2 |-> contact2,
            contact1_after |-> contact1, contact2_after |-> contact2,
            result |-> analyze_contact_similarity(industry_keywords, platform_weights,
                                                  contact1, contact2)]
      /\ platform_weights' =
           [p \in DOMAIN platform_weights \cup seen |-> platform_weight(platform_weights, p)]
      /\ UNCHANGED <<industry_keywords, sim_first>>

\* One call of ai_engine.analyze_contact_similarity(contact1, contact2): the
\* code reads its arguments and the engine's tables and assigns none of them.
AnalyzeContactSimilarity(contact1, contact2) ==
  /\ sim_calls < MaxSimCalls
  /\ sim_calls = 0 \/ sim_first.called
  /\ sim_calls' = sim_calls + 1
  /\ sim_call' =
       [called |-> TRUE, contact1 |-> contact1, contact2 |-> contact2,
        contact1_after |-> contact1, contact2_after |-> contact2,
        result |-> analyze_contact_similarity(industry_keywords, platform_weights,
                                              contact1, contact2)]
  /\ UNCHANGED <<industry_keywords, platform_weights, sim_first>>

\* The observer keeps one call to compare later calls with.
RememberCall ==
  /\ sim_call.called
  /\ ~sim_first.called
  /\ sim_call.contact1 \in ProbeContacts
  /\ sim_call.contact2 \in ProbeContacts
  /\ sim_first' = sim_call
  /\ UNCHANGED <<industry_keywords, platform_weights, sim_call, sim_calls>>

-----------------------------------------------------------------------------
\* AuthManager: configuration and password strength

PASSWORD_MIN_LENGTH == 8

MAX_LOGIN_ATTEMPTS == 5

\* "!@#$%^&*()_+-=[]{}|;:,.<>?"
special_chars ==
  {33, 64, 35, 36, 37, 94, 38, 42, 40, 41, 95, 43, 45, 61, 91, 93, 123, 125,
   124, 59, 58, 44, 46, 60, 62, 63}

_calculate_password_strength(password) ==
  LET score ==
        (IF Len(password) >= 8 THEN 1 ELSE 0)
        + (IF Len(password) >= 12 THEN 1 ELSE 0)
        + (IF \E c \in Chars(password) : IsUpper(c) THEN 1 ELSE 0)
        + (IF \E c \in Chars(password) : IsLower(c) THEN 1 ELSE 0)
        + (IF \E c \in Chars(password) : IsDigit(c) THEN 1 ELSE 0)
        + (IF \E c \in Chars(password) : c \in special_chars THEN 1 ELSE 0)
  IN  IF score <= 2 THEN "weak" ELSE IF score <= 4 THEN "medium" ELSE "strong"

\* The length check off by one: len(password) <= PASSWORD_MIN_LENGTH
validate_password_strength_off_by_one(password) ==
  LET errors ==
        (IF Len(password) <= PASSWORD_MIN_LENGTH THEN <<"length">> ELSE <<>>)
        \o (IF ~\E c \in Chars(password) : IsUpper(c) THEN <<"uppercase">> ELSE <<>>)
        \o (IF ~\E c \in Chars(password) : IsLower(c) THEN <<"lowercase">> ELSE <<>>)
        \o (IF ~\E c \in Chars(password) : IsDigit(c) THEN <<"number">> ELSE <<>>)
        \o (IF ~\E c \in Chars(password) : c \in special_chars THEN <<"special">> ELSE <<>>)
  IN  [valid |-> Len(errors) = 0, errors |-> errors,
       strength |-> _calculate_password_strength(password)]

\* The errors list holds, in the order of the checks, one tag per message.
validate_password_strength(password) ==
  LET errors ==
        (IF Len(password) < PASSWORD_MIN_LENGTH THEN <<"length">> ELSE <<>>)
        \o (IF ~\E c \in Chars(password) : IsUpper(c) THEN <<"uppercase">> ELSE <<>>)
        \o (IF ~\E c \in Chars(password) : IsLower(c) THEN <<"lowercase">> ELSE <<>>)
        \o (IF ~\E c \in Chars(password) : IsDigit(c) THEN <<"number">> ELSE <<>>)
        \o (IF ~\E c \in Chars(password) : c \in special_chars THEN <<"special">> ELSE <<>>)
  IN  [valid |-> Len(errors) = 0, errors |-> errors,
       strength |-> _calculate_password_strength(password)]

\* The passwords validate_password_strength is called with: up to MaxPwdLen
\* characters, so many of each class, the class's characters being its first
\* or its last in the ASCII order.
MaxPwdLen == 9

ClassChars ==
  << [upper |-> 65, lower |-> 97, digit |-> 48, special |-> 33, other |-> 32],
     [upper |-> 90, lower |-> 122, digit |-> 57, special |-> 63, other |-> 126] >>

PwdInputs ==
  { Repeat(ClassChars[v].upper, n[1]) \o Repeat(ClassChars[v].lower, n[2])
      \o Repeat(ClassChars[v].digit, n[3]) \o Repeat(ClassChars[v].special, n[4])
      \o Repeat(ClassChars[v].other, n[5]) :
    <<v, n>> \in
      { p \in (1..2) \X [1..5 -> 0..MaxPwdLen] :
          p[2][1] + p[2][2] + p[2][3] + p[2][4] + p[2][5] <= MaxPwdLen } }

VARIABLES
  pwd_call   \* the last validate_password_strength call: argument and result

NoPwdCall ==
  [called |-> FALSE, password |-> <<>>,
   result |-> [valid |-> FALSE, errors |-> <<>>, strength |-> ""]]

ValidatePasswordStrength(password) ==
  /\ ~pwd_call.called
  /\ pwd_call' = [called |-> TRUE, password |-> password,
                  result |-> validate_password_strength(password)]

-----------------------------------------------------------------------------
\* The database tables of the contact and connection routes, and the last
\* response.  ActivityLog and AIAnalysis rows are only ever added, and the
\* handlers modelled here read none of them: each table is its number of rows.

VARIABLES
  contacts,       \* Contact rows, in id order
  connections,    \* Connection rows, in id order
  ai_analyses,    \* the number of AIAnalysis rows
  activity_log,   \* the number of ActivityLog rows
  social_profiles, \* SocialProfile rows, in id order
  resp            \* the last request and its response

\* A run holds at most MaxContacts contacts and MaxRows rows in each of the
\* two append-only tables.
MaxContacts == 3

MaxRows == 5

\* request.json.get(key) when the key is absent
NoValue == -1

UserIds == {1, 2}

valid_statuses == {"pending", "accepted", "rejected", "contacted"}

\* A field of a JSON body: absent, or present with a value
Absent == [present |-> FALSE, value |-> ""]

Present(v) == [present |-> TRUE, value |-> v]

\* The last request and its response: the route, the status, the ids of the
\* URL and the user_id, status and platform of the body
NoResp ==
  [route |-> "", status |-> 0, user_id |-> NoValue, connection_id |-> NoValue,
   new_status |-> Absent, contact_id |-> NoValue, profile_id |-> NoValue,
   platform |-> Absent]

\* The JSON bodies create_contact is called with: data.get(field) is None for
\* a field the body does not hold.
ContactBodies ==
  { [industry |-> Str_Software, location |-> Str_MadridSpain,
     company |-> Str_AcmeLabs, position |-> Str_Analista],
    [industry |-> Str_tech_lower, location |-> Str_empty, company |-> Str_empty,
     position |-> Str_empty],
    [industry |-> NULL, location |-> NULL, company |-> NULL, position |-> NULL] }

\* POST /contacts with a body that holds user_id and name
create_contact(user_id, body) ==
  /\ Len(contacts) < MaxContacts
  /\ activity_log < MaxRows
  /\ contacts' = Append(contacts,
       [id |-> Len(contacts) + 1, user_id |-> user_id,
        industry |-> body.industry, location |-> body.location,
        company |-> body.company, position |-> body.position,
        social_profiles |-> <<>>])
  /\ activity_log' = activity_log + 1
  /\ resp' = [NoResp EXCEPT !.route = "create_contact", !.status = 201,
                            !.user_id = user_id]
  /\ UNCHANGED <<connections, ai_analyses>>

\* POST /contacts with a body that lacks user_id or name
create_contact_missing_field ==
  /\ resp' = [NoResp EXCEPT !.route = "create_contact", !.status = 400]
  /\ UNCHANGED <<contacts, connections, ai_analyses, activity_log>>

\* Contact.query.filter_by(user_id=user_id).all()
ContactsOf(user_id) == SelectSeq(contacts, LAMBDA c : c.user_id = user_id)

determine_connection_type_from_analysis(analysis) ==
  LET labels == { analysis.factors[i].label : i \in 1..Len(analysis.factors) }
  IN  IF "Industria similar" \in labels
      THEN (IF "Ubicacion similar" \in labels THEN "industry_location_match"
            ELSE "industry_match")
      ELSE IF "Ubicacion similar" \in labels THEN "location_match"
      ELSE IF "Empresa relacionada" \in labels THEN "company_match"
      ELSE IF "Presencia social similar" \in labels THEN "social_match"
      ELSE "ai_recommended"

\* The pairs (i, j), i before j, of a contact list, in the order of the loops
PairsOf(list) ==
  { p \in (1..Len(list)) \X (1..Len(list)) : p[1] < p[2] }

PairBefore(p, q) == p[1] < q[1] \/ (p[1] = q[1] /\ p[2] < q[2])

RECURSIVE SortPairs(_)
SortPairs(S) ==
  IF S = {} THEN <<>>
  ELSE LET p == CHOOSE x \in S : \A y \in S \ {x} : PairBefore(x, y)
       IN  <<p>> \o SortPairs(S \ {p})

\* analysis of every pair of the list, as the loops compute it
Analyses(list) ==
  [p \in PairsOf(list) |->
     analyze_contact_similarity(industry_keywords, platform_weights,
                                list[p[1]], list[p[2]])]

\* Whether a Connection (user_id, contact_id, suggested_contact_id) is stored
Existing(user_id, contact_id, suggested_contact_id) ==
  \E k \in 1..Len(connections) :
    /\ connections[k].user_id = user_id
    /\ connections[k].contact_id = contact_id
    /\ connections[k].suggested_contact_id = suggested_contact_id

\* The suggestions list the loops of generate_connections build
Suggestions(user_id, list, analysis) ==
  LET kept == SelectSeq(SortPairs(PairsOf(list)),
                LAMBDA p : /\ RLeq(Rat(3, 10), analysis[p].similarity_score)
                           /\ ~Existing(user_id, list[p[1]].id, list[p[2]].id))
  IN  [k \in 1..Len(kept) |->
         [id |-> Len(connections) + k,
          user_id |-> user_id,
          contact_id |-> list[kept[k][1]].id,
          suggested_contact_id |-> list[kept[k][2]].id,
          connection_type |-> determine_connection_type_from_analysis(analysis[kept[k]]),
          confidence_score |-> analysis[kept[k]].similarity_score,
          status |-> "pending"]]

\* generate_connections asking for at least 1 contact in place of 2
generate_connections_one_contact(user_id) ==
  LET list == ContactsOf(user_id)
      analysis == Analyses(list)
      raised == \E p \in PairsOf(list) : analysis[p].raised # ""
      answer(status) ==
        [NoResp EXCEPT !.route = "generate_connections", !.status = status,
                       !.user_id = user_id]
  IN  IF user_id \in {NoValue, 0}
      THEN /\ resp' = answer(400)
           /\ UNCHANGED <<contacts, connections, ai_analyses, activity_log>>
      ELSE IF Len(list) < 1
      THEN /\ resp' = answer(400)
           /\ UNCHANGED <<contacts, connections, ai_analyses, activity_log>>
      ELSE IF raised
      THEN /\ resp' = answer(500)
           /\ UNCHANGED <<contacts, connections, ai_analyses, activity_log>>
      ELSE /\ ai_analyses < MaxRows
           /\ activity_log < MaxRows
           /\ connections' = connections \o Suggestions(user_id, list, analysis)
           /\ ai_analyses' = ai_analyses + 1
           /\ activity_log' = activity_log + 1
           /\ resp' = answer(200)
           /\ UNCHANGED contacts

\* POST /connections/generate
generate_connections(user_id) ==
  LET list == ContactsOf(user_id)
      analysis == Analyses(list)
      raised == \E p \in PairsOf(list) : analysis[p].raised # ""
      answer(status) ==
        [NoResp EXCEPT !.route = "generate_connections", !.status = status,
                       !.user_id = user_id]
  IN  IF user_id \in {NoValue, 0}
      THEN /\ resp' = answer(400)
           /\ UNCHANGED <<contacts, connections, ai_analyses, activity_log>>
      ELSE IF Len(list) < 2
      THEN /\ resp' = answer(400)
           /\ UNCHANGED <<contacts, connections, ai_analyses, activity_log>>
      ELSE IF raised
      THEN \* the exception leaves the handler before anything is added
           /\ resp' = answer(500)
           /\ UNCHANGED <<contacts, connections, ai_analyses, activity_log>>
      ELSE /\ ai_analyses < MaxRows
           /\ activity_log < MaxRows
           /\ connections' = connections \o Suggestions(user_id, list, analysis)
           /\ ai_analyses' = ai_analyses + 1
           /\ activity_log' = activity_log + 1
           /\ resp' = answer(200)
           /\ UNCHANGED contacts

\* update_connection_status without the test against valid_statuses
update_connection_status_unchecked(connection_id, status) ==
  LET answer(code) ==
        [NoResp EXCEPT !.route = "update_connection_status", !.status = code,
                       !.connection_id = connection_id, !.new_status = status]
  IN  IF connection_id \notin 1..Len(connections)
      THEN /\ resp' = answer(404)
           /\ UNCHANGED <<contacts, connections, ai_analyses, activity_log>>
      ELSE IF ~status.present
      THEN /\ resp' = answer(400)
           /\ UNCHANGED <<contacts, connections, ai_analyses, activity_log>>
      ELSE /\ activity_log < MaxRows
           /\ connections' = [connections EXCEPT ![connection_id].status = status.value]
           /\ activity_log' = activity_log + 1
           /\ resp' = answer(200)
           /\ UNCHANGED <<contacts, ai_analyses>>

\* PUT /connections/<connection_id>/status
update_connection_status(connection_id, status) ==
  LET answer(code) ==
        [NoResp EXCEPT !.route = "update_connection_status", !.status = code,
                       !.connection_id = connection_id, !.new_status = status]
  IN  IF connection_id \notin 1..Len(connections)
      THEN /\ resp' = answer(404)
           /\ UNCHANGED <<contacts, connections, ai_analyses, activity_log>>
      ELSE IF ~status.present
      THEN /\ resp' = answer(400)
           /\ UNCHANGED <<contacts, connections, ai_analyses, activity_log>>
      ELSE IF status.value \notin valid_statuses
      THEN /\ resp' = answer(400)
           /\ UNCHANGED <<contacts, connections, ai_analyses, activity_log>>
      ELSE /\ activity_log < MaxRows
           /\ connections' = [connections EXCEPT ![connection_id].status = status.value]
           /\ activity_log' = activity_log + 1
           /\ resp' = answer(200)
           /\ UNCHANGED <<contacts, ai_analyses>>

\* The status fields update_connection_status is called with
StatusInputs == {Absent} \cup { Present(s) : s \in valid_statuses \cup {"archived"} }

\* The (user_id, body) pairs create_contact is called with
ContactRequests ==
  { <<1, body>> : body \in ContactBodies }
  \cup { <<2, body>> : body \in { b \in ContactBodies : b.industry = Str_Software } }

-----------------------------------------------------------------------------
\* The social profile routes

\* A run holds at most MaxProfiles social profiles at a time.
MaxProfiles == 2

valid_platforms == {"tiktok", "instagram", "facebook", "linkedin"}

\* request.json of the social profile routes: not a JSON object (null), or an
\* object with or without the keys platform, username and contact_id
NullBody ==
  [is_object |-> FALSE, platform |-> Absent, username |-> Absent,
   contact_id |-> Absent]

SocialBody(platform, username, contact_id) ==
  [is_object |-> TRUE, platform |-> platform, username |-> username,
   contact_id |-> contact_id]

\* Contact.query.get, SocialProfile.query.get
ContactExists(contact_id) == \E i \in 1..Len(contacts) : contacts[i].id = contact_id

ProfileExists(profile_id) ==
  \E i \in 1..Len(social_profiles) : social_profiles[i].id = profile_id

\* The id SQLite gives the next row: one more than the largest id in the table
NextProfileId ==
  IF social_profiles = <<>> THEN 1
  ELSE social_profiles[Len(social_profiles)].id + 1

SocialResp(route, status, contact_id, profile_id, body) ==
  [NoResp EXCEPT !.route = route, !.status = status, !.contact_id = contact_id,
                 !.profile_id = profile_id, !.platform = body.platform]

\* POST /contacts/<contact_id>/social-profiles
create_social_profile(contact_id, body) ==
  LET answer(status) ==
        SocialResp("create_social_profile", status, contact_id, NoValue, body)
  IN  IF ~ContactExists(contact_id)
      THEN /\ resp' = answer(404)
           /\ UNCHANGED <<contacts, connections, ai_analyses, activity_log,
                          social_profiles>>
      ELSE IF ~body.is_object
      THEN /\ resp' = answer(500)
           /\ UNCHANGED <<contacts, connections, ai_analyses, activity_log,
                          social_profiles>>
      ELSE IF ~body.platform.present \/ ~body.username.present
      THEN /\ resp' = answer(400)
           /\ UNCHANGED <<contacts, connections, ai_analyses, activity_log,
                          social_profiles>>
      ELSE IF body.platform.value \notin valid_platforms
      THEN /\ resp' = answer(400)
           /\ UNCHANGED <<contacts, connections, ai_analyses, activity_log,
                          social_profiles>>
      ELSE /\ Len(social_profiles) < MaxProfiles
           /\ activity_log < MaxRows
           /\ social_profiles' = Append(social_profiles,
                [id |-> NextProfileId, contact_id |-> contact_id,
                 platform |-> body.platform.value,
                 username |-> body.username.value])
           /\ activity_log' = activity_log + 1
           /\ resp' = [answer(201) EXCEPT !.profile_id = NextProfileId]
           /\ UNCHANGED <<contacts, connections, ai_analyses>>

\* update_social_profile with platform and contact_id among the fields it sets
update_social_profile_any_field(profile_id, body) ==
  LET answer(status) ==
        SocialResp("update_social_profile", status, NoValue, profile_id, body)
      updated(row) ==
        [row EXCEPT
           !.username = IF body.username.present THEN body.username.value ELSE @,
           !.platform = IF body.platform.present THEN body.platform.value ELSE @]
  IN  IF ~ProfileExists(profile_id)
      THEN /\ resp' = answer(404)
           /\ UNCHANGED <<contacts, connections, ai_analyses, activity_log,
                          social_profiles>>
      ELSE IF ~body.is_object
      THEN /\ resp' = answer(500)
           /\ UNCHANGED <<contacts, connections, ai_analyses, activity_log,
                          social_profiles>>
      ELSE /\ social_profiles' =
                [i \in 1..Len(social_profiles) |->
                   IF social_profiles[i].id = profile_id
                   THEN updated(social_profiles[i]) ELSE social_profiles[i]]
           /\ resp' = answer(200)
           /\ UNCHANGED <<contacts, connections, ai_analyses, activity_log>>

\* PUT /social-profiles/<profile_id>: of the keys of the body, username is
\* among the fields the loop sets; platform and contact_id are not
update_social_profile(profile_id, body) ==
  LET answer(status) ==
        SocialResp("update_social_profile", status, NoValue, profile_id, body)
      updated(row) ==
        [row EXCEPT
           !.username = IF body.username.present THEN body.username.value ELSE @]
  IN  IF ~ProfileExists(profile_id)
      THEN /\ resp' = answer(404)
           /\ UNCHANGED <<contacts, connections, ai_analyses, activity_log,
                          social_profiles>>
      ELSE IF ~body.is_object
      THEN /\ resp' = answer(500)
           /\ UNCHANGED <<contacts, connections, ai_analyses, activity_log,
                          social_profiles>>
      ELSE /\ social_profiles' =
                [i \in 1..Len(social_profiles) |->
                   IF social_profiles[i].id = profile_id
                   THEN updated(social_profiles[i]) ELSE social_profiles[i]]
           /\ resp' = answer(200)
           /\ UNCHANGED <<contacts, connections, ai_analyses, activity_log>>

\* DELETE /social-profiles/<profile_id>
delete_social_profile(profile_id) ==
  LET answer(status) ==
        SocialResp("delete_social_profile", status, NoValue, profile_id, NullBody)
  IN  IF ~ProfileExists(profile_id)
      THEN /\ resp' = answer(404)
           /\ UNCHANGED <<contacts, connections, ai_analyses, activity_log,
                          social_profiles>>
      ELSE /\ activity_log < MaxRows
           /\ social_profiles' =
                SelectSeq(social_profiles, LAMBDA row : row.id # profile_id)
           /\ activity_log' = activity_log + 1
           /\ resp' = answer(204)
           /\ UNCHANGED <<contacts, connections, ai_analyses>>

\* The bodies create_social_profile is called with
CreateProfileBodies ==
  { NullBody,
    SocialBody(Present("tiktok"), Absent, Absent),
    SocialBody(Absent, Present("ana"), Absent),
    SocialBody(Present("tiktok"), Present("ana"), Absent),
    SocialBody(Present("linkedin"), Present("ana"), Absent),
    SocialBody(Present("TikTok"), Present("ana"), Absent),
    SocialBody(Present("myspace"), Present("ana"), Absent) }

\* The bodies update_social_profile is called with
UpdateProfileBodies ==
  { NullBody,
    SocialBody(Present("myspace"), Present("eva"), Present("2")),
    SocialBody(Present("linkedin"), Absent, Absent) }
-----------------------------------------------------------------------------
\* The network density of the analytics routes

VARIABLE
  density_call   \* the last calculate_network_density call: argument and result

\* calculate_network_density is called with up to MaxDensityContacts contacts.
MaxDensityContacts == 3

NoDensityCall == [called |-> FALSE, contacts |-> <<>>, result |-> <<0, 1>>]

\* bool(value) of a column that holds None or a string
Truthy(value) == value # NULL /\ value # Str_empty

\* The condition of the inner loop
PairMatches(contact1, contact2) ==
  \/ (Truthy(contact1.industry) /\ Truthy(contact2.industry)
        /\ contact1.industry = contact2.industry)
  \/ (Truthy(contact1.location) /\ Truthy(contact2.location)
        /\ contact1.location = contact2.location)
  \/ (Truthy(contact1.company) /\ Truthy(contact2.company)
        /\ contact1.company = contact2.company)

\* The inner loop with one count for every field that matches
MatchesFrom_per_field(contact1, rest) ==
  LET RECURSIVE count(_)
      count(k) ==
        IF k > Len(rest) THEN 0
        ELSE (IF Truthy(contact1.industry) /\ contact1.industry = rest[k].industry
              THEN 1 ELSE 0)
             + (IF Truthy(contact1.location) /\ contact1.location = rest[k].location
                THEN 1 ELSE 0)
             + (IF Truthy(contact1.company) /\ contact1.company = rest[k].company
                THEN 1 ELSE 0)
             + count(k + 1)
  IN  count(1)

\* The inner loop: what contact1 and the contacts after it add to connections
MatchesFrom(contact1, rest) ==
  LET RECURSIVE count(_)
      count(k) ==
        IF k > Len(rest) THEN 0
        ELSE (IF PairMatches(contact1, rest[k]) THEN 1 ELSE 0) + count(k + 1)
  IN  count(1)

calculate_network_density(list) ==
  LET n == Len(list)
      total_possible == Rat(n * (n - 1), 2)
      RECURSIVE outer(_)
      outer(i) ==
        IF i > n THEN 0
        ELSE MatchesFrom(list[i], SubSeq(list, i + 1, n)) + outer(i + 1)
      count == outer(1)   \* the local connections
  IN  IF n < 2 THEN Rat(0, 1)
      ELSE IF RLess(Rat(0, 1), total_possible)
      THEN Rat(count * total_possible[2], total_possible[1])
      ELSE Rat(0, 1)

\* The contacts calculate_network_density is called with
DensityContacts ==
  [industry : {NULL, Str_empty, Str_Tech, Str_tech_lower},
   location : {NULL, Str_Madrid},
   company : {Str_empty, Str_Acme}]

DensityInputs ==
  UNION { [1..n -> DensityContacts] : n \in 0..MaxDensityContacts }

CalculateNetworkDensity(list) ==
  /\ ~density_call.called
  /\ density_call' = [called |-> TRUE, contacts |-> list,
                      result |-> calculate_network_density(list)]
-----------------------------------------------------------------------------
\* Strings the authentication routes are called with

Str_alice == <<97, 108, 105, 99, 101>>   \* 'alice'

Str_carol == <<99, 97, 114, 111, 108>>   \* 'carol'

Str_al == <<97, 108>>   \* 'al'

Str_bob_lt == <<98, 111, 98, 60>>   \* 'bob<'

Str_bob_dash == <<98, 111, 98, 45, 120>>   \* 'bob-x'

Str_a_x_io == <<97, 64, 120, 46, 105, 111>>   \* 'a@x.io'

Str_b_x_io == <<98, 64, 120, 46, 105, 111>>   \* 'b@x.io'

Str_c_x_io == <<99, 64, 120, 46, 105, 111>>   \* 'c@x.io'

Str_a_x == <<97, 64, 120>>   \* 'a@x'

Str_Passw0rd == <<80, 97, 115, 115, 119, 48, 114, 100, 33>>   \* 'Passw0rd!'

Str_N3wPass == <<78, 51, 119, 80, 97, 115, 115, 35, 49>>   \* 'N3wPass#1'

Str_password == <<112, 97, 115, 115, 119, 111, 114, 100>>   \* 'password'

Str_Alice_name == <<65, 108, 105, 99, 101, 32, 65>>   \* 'Alice A'

Str_Passw0rd_lt == <<80, 97, 115, 115, 119, 48, 114, 100, 33, 60>>   \* 'Passw0rd!<'
-----------------------------------------------------------------------------
\* Pure functions of AuthManager and of the register handler

Min(a, b) == IF a <= b THEN a ELSE b

IsAsciiLetter(c) == (c >= 65 /\ c <= 90) \/ (c >= 97 /\ c <= 122)

IsAsciiDigit(c) == c >= 48 /\ c <= 57

\* re's $ : the end of the string, or the place before a newline that ends it
BeforeDollar(s) ==
  { s } \cup (IF Len(s) > 0 /\ s[Len(s)] = 10 THEN { SubSeq(s, 1, Len(s) - 1) } ELSE {})

\* ^[a-zA-Z0-9._%+-]+@[a-zA-Z0-9.-]+\.[a-zA-Z]{2,}$
validate_email(email) ==
  \E body \in BeforeDollar(email) :
    \E at \in 1..Len(body), dot \in 1..Len(body) :
      /\ 1 < at /\ at + 1 < dot /\ dot + 2 <= Len(body)
      /\ body[at] = 64
      /\ body[dot] = 46
      /\ \A i \in 1..(at - 1) :
           IsAsciiLetter(body[i]) \/ IsAsciiDigit(body[i]) \/ body[i] \in {46, 95, 37, 43, 45}
      /\ \A i \in (at + 1)..(dot - 1) :
           IsAsciiLetter(body[i]) \/ IsAsciiDigit(body[i]) \/ body[i] \in {46, 45}
      /\ \A i \in (dot + 1)..Len(body) : IsAsciiLetter(body[i])

\* re.match(r'^[a-zA-Z0-9_]+$', username)
username_matches(username) ==
  \E body \in BeforeDollar(username) :
    /\ Len(body) >= 1
    /\ \A i \in 1..Len(body) :
         IsAsciiLetter(body[i]) \/ IsAsciiDigit(body[i]) \/ body[i] = 95

dangerous_chars == {60, 62, 34, 39, 38, 0}

sanitize_input(data) ==
  LET kept == SelectSeq(data, LAMBDA c : c \notin dangerous_chars)
  IN  SubSeq(kept, 1, Min(Len(kept), 1000))

\* hashlib.sha256(...).hexdigest(): no two inputs of the model share a digest
sha256(text) == <<"sha256", text>>

\* The stored string salt:hash, as its two parts
hash_password(password, salt) == [salt |-> salt, hash |-> sha256(password \o salt)]

verify_password(password, hashed_password) ==
  sha256(password \o hashed_password.salt) = hashed_password.hash

JWT_EXPIRATION_HOURS == 24

\* A symbol of an Authorization header: a space, a word, or a token, which is
\* a payload {user_id, exp} and whether its signature is made with
\* JWT_SECRET_KEY.  Times are minutes.
Space == [kind |-> "space", user_id |-> 0, exp |-> 0, signed |-> FALSE]

Word == [kind |-> "word", user_id |-> 0, exp |-> 0, signed |-> FALSE]

\* The token generate_token makes at time at
generate_token(user_id, at) ==
  [kind |-> "token", user_id |-> user_id, exp |-> at + JWT_EXPIRATION_HOURS * 60,
   signed |-> TRUE]

\* jwt.decode of one part of the Authorization header.  A part is a sequence
\* of symbols; it is a token when it is one symbol that is a signed payload.
\* Whether a token is expired at the very instant exp depends on the version
\* of the jwt library: at_exp tells how that instant is decided.
IsTokenPart(part) == Len(part) = 1 /\ part[1].kind = "token"

\* verify_token that takes no account of exp
verify_token_ignores_exp(part, at, at_exp) ==
  IF ~IsTokenPart(part) THEN [error |-> "Invalid token", user_id |-> 0]
  ELSE IF ~part[1].signed THEN [error |-> "Invalid token", user_id |-> 0]
  ELSE [error |-> "", user_id |-> part[1].user_id]

verify_token(part, at, at_exp) ==
  IF ~IsTokenPart(part) THEN [error |-> "Invalid token", user_id |-> 0]
  ELSE IF ~part[1].signed THEN [error |-> "Invalid token", user_id |-> 0]
  ELSE IF part[1].exp < at \/ (part[1].exp = at /\ at_exp)
  THEN [error |-> "Token expired", user_id |-> 0]
  ELSE [error |-> "", user_id |-> part[1].user_id]

-----------------------------------------------------------------------------
\* The state of the authentication routes

VARIABLES
  now,          \* datetime.utcnow(), in minutes
  rate_limits,  \* auth_manager._rate_limits: identifier -> times of attempts
  attempts,     \* history: identifier -> times of the requests that count as
                \* attempts (failed logins, registrations let through)
  users,        \* User rows, in id order
  auth_resp     \* the last request to an authentication route and its response

\* A run holds at most MaxUsers users, counts at most MaxFailedLogins failed
\* logins and MaxRegistrations registration attempts, and adds rows to the
\* activity log up to MaxAuthRows.
MaxUsers == 2

MaxFailedLogins == 5

MaxRegistrations == 4

MaxAuthRows == 3

\* A field of a JSON body
JsonAbsent == [kind |-> "absent", value |-> <<>>]

JsonStr(s) == [kind |-> "str", value |-> s]

JsonInt(n) == [kind |-> "int", value |-> <<n>>]

Fields == {"username", "email", "password", "name", "current_password", "new_password"}

EmptyBody ==
  [is_json |-> TRUE, username |-> JsonAbsent, email |-> JsonAbsent,
   password |-> JsonAbsent, name |-> JsonAbsent,
   current_password |-> JsonAbsent, new_password |-> JsonAbsent]

NoHeader == [present |-> FALSE, value |-> <<>>]

Header(symbols) == [present |-> TRUE, value |-> symbols]

\* The last request and its response: the route, the address and the header
\* of the request, the username, email and password of its validated data
\* (register and update_profile; for change_password the current password and
\* the new one), whether
\* validate_input let it through, whether the user was searched by the
\* credentials, whether the function behind require_auth ran, the status, and
\* the token of a 200 or 201 of login and register
NoAuthResp ==
  [route |-> "", status |-> 0, ip |-> "", header |-> NoHeader,
   username |-> JsonAbsent, email |-> JsonAbsent, password |-> JsonAbsent,
   new_password |-> JsonAbsent,
   validated |-> FALSE, looked_up |-> FALSE, handler_ran |-> FALSE, user_id |-> 0,
   token |-> Word]

\* validate_input(schema): the error response, or request.validated_data
validate_input(required, types, body) ==
  IF ~body.is_json THEN [ok |-> FALSE, data |-> body]
  ELSE IF \A f \in Fields : body[f].kind = "absent" THEN [ok |-> FALSE, data |-> body]
  ELSE IF \E f \in required : body[f].kind = "absent" THEN [ok |-> FALSE, data |-> body]
  ELSE IF \E f \in types : body[f].kind \notin {"absent", "str"}
  THEN [ok |-> FALSE, data |-> body]
  ELSE [ok |-> TRUE,
        data |-> [f \in Fields \cup {"is_json"} |->
                    IF f = "is_json" THEN TRUE
                    ELSE IF body[f].kind = "str"
                    THEN JsonStr(sanitize_input(body[f].value))
                    ELSE body[f]]]

\* f"login_{client_ip}", f"register_{client_ip}"
Identifier(route, ip) == <<route, ip>>

AttemptsOf(limits, identifier) ==
  IF identifier \in DOMAIN limits THEN limits[identifier] ELSE <<>>

Store(limits, identifier, list) ==
  [k \in DOMAIN limits \cup {identifier} |->
     IF k = identifier THEN list ELSE limits[k]]

\* rate_limit_check: the answer, and _rate_limits as the call leaves it
rate_limit_check(identifier, max_attempts, window_minutes) ==
  LET window_start == now - window_minutes
      kept == SelectSeq(AttemptsOf(rate_limits, identifier),
                        LAMBDA attempt : attempt > window_start)
  IN  [allowed |-> ~(Len(kept) >= max_attempts),
       attempts |-> Len(kept),
       limits |-> Store(rate_limits, identifier, kept)]

\* record_attempt on the _rate_limits a rate_limit_check has left
record_attempt(limits, identifier) ==
  Store(limits, identifier, Append(AttemptsOf(limits, identifier), now))

\* The number of attempts of a route counted in a run
Counted(route) ==
  LET RECURSIVE Sum(_)
      Sum(S) == IF S = {} THEN 0
                ELSE LET k == CHOOSE x \in S : TRUE
                     IN  Len(attempts[k]) + Sum(S \ {k})
  IN  Sum({ k \in DOMAIN attempts : k[1] = route })

NoUser ==
  [id |-> 0, username |-> <<>>, email |-> <<>>,
   password_hash |-> [salt |-> <<>>, hash |-> <<>>], name |-> <<>>]

\* .first() of a query: the first row found, or None
First(found) == IF Len(found) = 0 THEN NoUser ELSE found[1]

\* User.query.filter_by(username=username).first()
UserByUsername(username) ==
  First(SelectSeq(users, LAMBDA u : u.username = username))

\* User.query.filter_by(email=email).first()
UserByEmail(email) == First(SelectSeq(users, LAMBDA u : u.email = email))

\* User.query.filter((User.username == name) | (User.email == name)).first()
UserByUsernameOrEmail(name) ==
  First(SelectSeq(users, LAMBDA u : u.username = name \/ u.email = name))

\* User.query.filter(User.email == email, User.id != id).first()
OtherUserByEmail(email, id) ==
  First(SelectSeq(users, LAMBDA u : u.email = email /\ u.id # id))

\* User.query.get(id)
UserById(id) == First(SelectSeq(users, LAMBDA u : u.id = id))

-----------------------------------------------------------------------------
\* POST /auth/register and POST /auth/login

Salts == {<<97, 49>>}

\* Where the database fails in a handler: nowhere, at the commit of the user
\* row, or at the commit of the activity log row
DbFailures == {"none", "user_commit", "log_commit"}

Answer(route, ip, status) ==
  [NoAuthResp EXCEPT !.route = route, !.ip = ip, !.status = status]

Validated(route, ip, data, status) ==
  [Answer(route, ip, status) EXCEPT !.validated = TRUE, !.username = data.username,
                                    !.email = data.email, !.password = data.password]

\* What register does once the attempt is recorded
register_checked(ip, body, data, salt, db_fails) ==
  LET username == data.username.value
      email == data.email.value
      password == data.password.value
      answer(status) ==
        Validated("register", ip, data, status)
      user == [id |-> Len(users) + 1, username |-> username, email |-> email,
               password_hash |-> hash_password(password, salt),
               name |-> IF data.name.kind = "absent" THEN username
                        ELSE data.name.value]
  IN  IF ~validate_email(email)
      THEN auth_resp' = answer(400) /\ UNCHANGED <<users, activity_log>>
      ELSE IF ~validate_password_strength(password).valid
      THEN auth_resp' = answer(400) /\ UNCHANGED <<users, activity_log>>
      ELSE IF Len(username) < 3 \/ Len(username) > 50
      THEN auth_resp' = answer(400) /\ UNCHANGED <<users, activity_log>>
      ELSE IF ~username_matches(username)
      THEN auth_resp' = answer(400) /\ UNCHANGED <<users, activity_log>>
      ELSE IF UserByUsername(username).id # 0
      THEN auth_resp' = answer(409) /\ UNCHANGED <<users, activity_log>>
      ELSE IF UserByEmail(email).id # 0
      THEN auth_resp' = answer(409) /\ UNCHANGED <<users, activity_log>>
      ELSE IF db_fails = "user_commit"
      THEN auth_resp' = answer(500) /\ UNCHANGED <<users, activity_log>>
      ELSE /\ Len(users) < MaxUsers
           /\ users' = Append(users, user)
           /\ IF db_fails = "log_commit"
              THEN auth_resp' = answer(500) /\ UNCHANGED activity_log
              ELSE /\ activity_log < MaxAuthRows
                   /\ activity_log' = activity_log + 1
                   /\ auth_resp' = [answer(201) EXCEPT
                                      !.user_id = user.id,
                                      !.token = generate_token(user.id, now)]

\* register that records the attempt only when it creates the user
register_records_on_success(ip, body, salt, db_fails) ==
  LET validated == validate_input({"username", "email", "password"},
                                  {"username", "email", "password"}, body)
      identifier == Identifier("register", ip)
      rate_check == rate_limit_check(identifier, 3, 60)
  IN  IF ~validated.ok
      THEN /\ auth_resp' = Answer("register", ip, 400)
           /\ UNCHANGED <<rate_limits, attempts, users, activity_log>>
      ELSE IF ~rate_check.allowed
      THEN /\ auth_resp' = Validated("register", ip, validated.data, 429)
           /\ rate_limits' = rate_check.limits
           /\ UNCHANGED <<attempts, users, activity_log>>
      ELSE /\ Counted("register") < MaxRegistrations
           /\ register_checked(ip, body, validated.data, salt, db_fails)
           /\ rate_limits' = IF auth_resp'.status = 201
                             THEN record_attempt(rate_check.limits, identifier)
                             ELSE rate_check.limits
           /\ attempts' = Store(attempts, identifier,
                                Append(AttemptsOf(attempts, identifier), now))

\* POST /auth/register
register(ip, body, salt, db_fails) ==
  LET validated == validate_input({"username", "email", "password"},
                                  {"username", "email", "password"}, body)
      identifier == Identifier("register", ip)
      rate_check == rate_limit_check(identifier, 3, 60)
  IN  IF ~validated.ok
      THEN /\ auth_resp' = Answer("register", ip, 400)
           /\ UNCHANGED <<rate_limits, attempts, users, activity_log>>
      ELSE IF ~rate_check.allowed
      THEN /\ auth_resp' = Validated("register", ip, validated.data, 429)
           /\ rate_limits' = rate_check.limits
           /\ UNCHANGED <<attempts, users, activity_log>>
      ELSE /\ Counted("register") < MaxRegistrations
           /\ rate_limits' = record_attempt(rate_check.limits, identifier)
           /\ attempts' = Store(attempts, identifier,
                                Append(AttemptsOf(attempts, identifier), now))
           /\ register_checked(ip, body, validated.data, salt, db_fails)

\* login that records no attempt for an unknown user
login_forgets_unknown_user(ip, body, db_fails) ==
  LET validated == validate_input({"username", "password"},
                                  {"username", "password"}, body)
      data == validated.data
      identifier == Identifier("login", ip)
      rate_check == rate_limit_check(identifier, MAX_LOGIN_ATTEMPTS, 15)
      user == UserByUsernameOrEmail(data.username.value)
      answer(status) ==
        [Answer("login", ip, status) EXCEPT !.validated = TRUE]
      failed == Store(attempts, identifier,
                      Append(AttemptsOf(attempts, identifier), now))
  IN  IF ~validated.ok
      THEN /\ auth_resp' = Answer("login", ip, 400)
           /\ UNCHANGED <<rate_limits, attempts, users, activity_log>>
      ELSE IF ~rate_check.allowed
      THEN /\ auth_resp' = answer(429)
           /\ rate_limits' = rate_check.limits
           /\ UNCHANGED <<attempts, users, activity_log>>
      ELSE IF user.id = 0
      THEN /\ Counted("login") < MaxFailedLogins
           /\ rate_limits' = rate_check.limits
           /\ attempts' = failed
           /\ auth_resp' = [answer(401) EXCEPT !.looked_up = TRUE]
           /\ UNCHANGED <<users, activity_log>>
      ELSE IF ~verify_password(data.password.value, user.password_hash)
      THEN /\ Counted("login") < MaxFailedLogins
           /\ activity_log < MaxAuthRows
           /\ rate_limits' = record_attempt(rate_check.limits, identifier)
           /\ attempts' = failed
           /\ activity_log' = activity_log + 1
           /\ auth_resp' = [answer(401) EXCEPT !.looked_up = TRUE, !.user_id = user.id]
           /\ UNCHANGED users
      ELSE IF db_fails # "none"
      THEN /\ rate_limits' = rate_check.limits
           /\ auth_resp' = [answer(500) EXCEPT !.looked_up = TRUE, !.user_id = user.id]
           /\ UNCHANGED <<attempts, users, activity_log>>
      ELSE /\ activity_log < MaxAuthRows
           /\ rate_limits' = rate_check.limits
           /\ activity_log' = activity_log + 1
           /\ auth_resp' = [answer(200) EXCEPT !.looked_up = TRUE, !.user_id = user.id,
                                               !.token = generate_token(user.id, now)]
           /\ UNCHANGED <<attempts, users>>

\* POST /auth/login
login(ip, body, db_fails) ==
  LET validated == validate_input({"username", "password"},
                                  {"username", "password"}, body)
      data == validated.data
      identifier == Identifier("login", ip)
      rate_check == rate_limit_check(identifier, MAX_LOGIN_ATTEMPTS, 15)
      user == UserByUsernameOrEmail(data.username.value)
      answer(status) ==
        [Answer("login", ip, status) EXCEPT !.validated = TRUE]
      failed == Store(attempts, identifier,
                      Append(AttemptsOf(attempts, identifier), now))
  IN  IF ~validated.ok
      THEN /\ auth_resp' = Answer("login", ip, 400)
           /\ UNCHANGED <<rate_limits, attempts, users, activity_log>>
      ELSE IF ~rate_check.allowed
      THEN /\ auth_resp' = answer(429)
           /\ rate_limits' = rate_check.limits
           /\ UNCHANGED <<attempts, users, activity_log>>
      ELSE IF user.id = 0
      THEN /\ Counted("login") < MaxFailedLogins
           /\ rate_limits' = record_attempt(rate_check.limits, identifier)
           /\ attempts' = failed
           /\ auth_resp' = [answer(401) EXCEPT !.looked_up = TRUE]
           /\ UNCHANGED <<users, activity_log>>
      ELSE IF ~verify_password(data.password.value, user.password_hash)
      THEN /\ Counted("login") < MaxFailedLogins
           /\ activity_log < MaxAuthRows
           /\ rate_limits' = record_attempt(rate_check.limits, identifier)
           /\ attempts' = failed
           /\ activity_log' = activity_log + 1
           /\ auth_resp' = [answer(401) EXCEPT !.looked_up = TRUE, !.user_id = user.id]
           /\ UNCHANGED users
      ELSE IF db_fails # "none"
      THEN /\ rate_limits' = rate_check.limits
           /\ auth_resp' = [answer(500) EXCEPT !.looked_up = TRUE, !.user_id = user.id]
           /\ UNCHANGED <<attempts, users, activity_log>>
      ELSE /\ activity_log < MaxAuthRows
           /\ rate_limits' = rate_check.limits
           /\ activity_log' = activity_log + 1
           /\ auth_resp' = [answer(200) EXCEPT !.looked_up = TRUE, !.user_id = user.id,
                                               !.token = generate_token(user.id, now)]
           /\ UNCHANGED <<attempts, users>>

\* The clock moves on
Tick(minutes) ==
  /\ now' = now + minutes
  /\ UNCHANGED <<rate_limits, attempts, users, auth_resp>>

-----------------------------------------------------------------------------
\* require_auth and the routes it wraps

\* auth_header.split(' '): the parts between the spaces, empty parts included
RECURSIVE split_space(_)
split_space(symbols) ==
  IF \A i \in 1..Len(symbols) : symbols[i].kind # "space" THEN <<symbols>>
  ELSE LET first == CHOOSE i \in 1..Len(symbols) :
                      /\ symbols[i].kind = "space"
                      /\ \A j \in 1..(i - 1) : symbols[j].kind # "space"
       IN  <<SubSeq(symbols, 1, first - 1)>>
             \o split_space(SubSeq(symbols, first + 1, Len(symbols)))

\* require_auth: the 401 it answers, or the user it hands to the handler
require_auth(header, at_exp) ==
  LET parts == split_space(header.value)
      payload == verify_token(parts[2], now, at_exp)
      user == UserById(payload.user_id)
  IN  IF ~header.present THEN [status |-> 401, user |-> NoUser]
      ELSE IF Len(parts) < 2 THEN [status |-> 401, user |-> NoUser]
      ELSE IF parts[2] = <<>> THEN [status |-> 401, user |-> NoUser]
      ELSE IF payload.error # "" THEN [status |-> 401, user |-> NoUser]
      ELSE IF user.id = 0 THEN [status |-> 401, user |-> NoUser]
      ELSE [status |-> 0, user |-> user]

Protected(route, ip, header, status) ==
  [Answer(route, ip, status) EXCEPT !.header = header]

\* GET /auth/profile
get_profile(ip, header, at_exp) ==
  LET auth == require_auth(header, at_exp)
  IN  /\ auth_resp' =
           IF auth.status = 401 THEN Protected("get_profile", ip, header, 401)
           ELSE [Protected("get_profile", ip, header, 200) EXCEPT
                   !.handler_ran = TRUE, !.user_id = auth.user.id]
      /\ UNCHANGED <<rate_limits, attempts, users, activity_log>>

\* update_profile without the search for another user with the email
update_profile_no_search(ip, header, body, at_exp, db_fails) ==
  LET auth == require_auth(header, at_exp)
      user == auth.user
      validated == validate_input({}, {"name", "email"}, body)
      data == validated.data
      ran(status) ==
        [Protected("update_profile", ip, header, status) EXCEPT
           !.handler_ran = TRUE, !.validated = validated.ok,
           !.email = IF validated.ok THEN data.email ELSE JsonAbsent,
           !.user_id = user.id]
  IN  IF auth.status = 401
      THEN /\ auth_resp' = Protected("update_profile", ip, header, 401)
           /\ UNCHANGED <<rate_limits, attempts, users, activity_log>>
      ELSE IF ~validated.ok
      THEN /\ auth_resp' = ran(400)
           /\ UNCHANGED <<rate_limits, attempts, users, activity_log>>
      ELSE IF data.email.kind # "absent" /\ ~validate_email(data.email.value)
      THEN /\ auth_resp' = ran(400)
           /\ UNCHANGED <<rate_limits, attempts, users, activity_log>>
      ELSE IF db_fails = "user_commit"
      THEN /\ auth_resp' = ran(500)
           /\ UNCHANGED <<rate_limits, attempts, users, activity_log>>
      ELSE /\ users' = [users EXCEPT
                          ![user.id].name =
                             IF data.name.kind # "absent" THEN data.name.value ELSE @,
                          ![user.id].email =
                             IF data.email.kind # "absent" THEN data.email.value ELSE @]
           /\ IF db_fails = "log_commit"
              THEN auth_resp' = ran(500) /\ UNCHANGED activity_log
              ELSE /\ activity_log < MaxAuthRows
                   /\ activity_log' = activity_log + 1
                   /\ auth_resp' = ran(200)
           /\ UNCHANGED <<rate_limits, attempts>>

\* PUT /auth/profile
update_profile(ip, header, body, at_exp, db_fails) ==
  LET auth == require_auth(header, at_exp)
      user == auth.user
      validated == validate_input({}, {"name", "email"}, body)
      data == validated.data
      ran(status) ==
        [Protected("update_profile", ip, header, status) EXCEPT
           !.handler_ran = TRUE, !.validated = validated.ok,
           !.email = IF validated.ok THEN data.email ELSE JsonAbsent,
           !.user_id = user.id]
  IN  IF auth.status = 401
      THEN /\ auth_resp' = Protected("update_profile", ip, header, 401)
           /\ UNCHANGED <<rate_limits, attempts, users, activity_log>>
      ELSE IF ~validated.ok
      THEN /\ auth_resp' = ran(400)
           /\ UNCHANGED <<rate_limits, attempts, users, activity_log>>
      ELSE IF data.email.kind # "absent" /\ ~validate_email(data.email.value)
      THEN /\ auth_resp' = ran(400)
           /\ UNCHANGED <<rate_limits, attempts, users, activity_log>>
      ELSE IF /\ data.email.kind # "absent"
              /\ OtherUserByEmail(data.email.value, user.id).id # 0
      THEN /\ auth_resp' = ran(409)
           /\ UNCHANGED <<rate_limits, attempts, users, activity_log>>
      ELSE IF db_fails = "user_commit"
      THEN /\ auth_resp' = ran(500)
           /\ UNCHANGED <<rate_limits, attempts, users, activity_log>>
      ELSE /\ users' = [users EXCEPT
                          ![user.id].name =
                             IF data.name.kind # "absent" THEN data.name.value ELSE @,
                          ![user.id].email =
                             IF data.email.kind # "absent" THEN data.email.value ELSE @]
           /\ IF db_fails = "log_commit"
              THEN auth_resp' = ran(500) /\ UNCHANGED activity_log
              ELSE /\ activity_log < MaxAuthRows
                   /\ activity_log' = activity_log + 1
                   /\ auth_resp' = ran(200)
           /\ UNCHANGED <<rate_limits, attempts>>

-----------------------------------------------------------------------------
\* The requests the authentication routes are called with

RegisterBody(username, email, password) ==
  [EmptyBody EXCEPT !.username = JsonStr(username), !.email = JsonStr(email),
                    !.password = JsonStr(password)]

LoginBody(username, password) ==
  [EmptyBody EXCEPT !.username = JsonStr(username), !.password = JsonStr(password)]

\* Bodies validate_input turns away
InvalidBodies ==
  { EmptyBody,
    [EmptyBody EXCEPT !.is_json = FALSE],
    [EmptyBody EXCEPT !.username = JsonStr(Str_alice)],
    [RegisterBody(Str_alice, Str_a_x_io, Str_Passw0rd) EXCEPT !.username = JsonInt(7)] }

\* Registrations of alice and of bob, and registrations the checks turn away
NewUserBodies ==
  { RegisterBody(Str_alice, Str_a_x_io, Str_Passw0rd),
    [RegisterBody(Str_bob_lt, Str_b_x_io, Str_N3wPass) EXCEPT
       !.name = JsonStr(Str_Alice_name)] }

RejectedBodies ==
  { RegisterBody(Str_al, Str_c_x_io, Str_Passw0rd),
    RegisterBody(Str_bob_dash, Str_c_x_io, Str_Passw0rd),
    RegisterBody(Str_carol, Str_a_x, Str_Passw0rd) }

\* Registrations with the username or the email of alice
DuplicateBodies ==
  { RegisterBody(Str_alice, Str_c_x_io, Str_Passw0rd),
    RegisterBody(Str_carol, Str_a_x_io, Str_Passw0rd),
    RegisterBody(Str_alice, Str_a_x_io, Str_password) }

LoginBodies ==
  { LoginBody(Str_alice, Str_Passw0rd),
    LoginBody(Str_a_x_io, Str_Passw0rd),
    LoginBody(Str_alice, Str_password),
    LoginBody(Str_carol, Str_Passw0rd),
    [EmptyBody EXCEPT !.username = JsonStr(Str_alice)] }

ProfileBodies ==
  { EmptyBody,
    [EmptyBody EXCEPT !.email = JsonStr(Str_a_x_io), !.name = JsonStr(Str_Alice_name)],
    [EmptyBody EXCEPT !.email = JsonStr(Str_a_x)] }

Token(user_id, exp, signed) ==
  [kind |-> "token", user_id |-> user_id, exp |-> exp, signed |-> signed]

\* Tokens with the payload of generate_token
Tokens ==
  { Token(1, exp, TRUE) : exp \in {720, 1440, 2880} }
  \cup { Token(2, 2880, TRUE), Token(1, 2880, FALSE) }

\* The headers update_profile is called with
ProfileHeaders ==
  { NoHeader, Header(<<Word, Space, Token(1, 2880, TRUE)>>),
    Header(<<Word, Space, Token(2, 2880, TRUE)>>) }

\* What the jwt library may decide for the token of a header at time at
ExpiryChoices(header, at) ==
  IF \E i \in 1..Len(header.value) :
       header.value[i].kind = "token" /\ header.value[i].exp = at
  THEN BOOLEAN ELSE {TRUE}

Headers ==
  { NoHeader, Header(<<Word, Space>>), Header(<<Word, Space, Word>>),
    Header(<<Word, Space, Space, Token(1, 2880, TRUE)>>),
    Header(<<Token(1, 2880, TRUE)>>),
    Header(<<Word, Space, Token(1, 2880, TRUE), Space, Word>>) }
  \cup { Header(<<Word, Space, token>>) : token \in Tokens }

-----------------------------------------------------------------------------
\* POST /auth/change-password

\* change_password without the check that the new password is a different one
change_password_same_allowed(ip, header, body, salt, at_exp, db_fails) ==
  LET auth == require_auth(header, at_exp)
      user == auth.user
      validated == validate_input({"current_password", "new_password"},
                                  {"current_password", "new_password"}, body)
      data == validated.data
      password_validation == validate_password_strength(data.new_password.value)
      ran(status) ==
        [Protected("change_password", ip, header, status) EXCEPT
           !.handler_ran = TRUE, !.validated = validated.ok,
           !.password = IF validated.ok THEN data.current_password ELSE JsonAbsent,
           !.new_password = IF validated.ok THEN data.new_password ELSE JsonAbsent,
           !.user_id = user.id]
  IN  IF auth.status = 401
      THEN /\ auth_resp' = Protected("change_password", ip, header, 401)
           /\ UNCHANGED <<rate_limits, attempts, users, activity_log>>
      ELSE IF ~validated.ok
      THEN /\ auth_resp' = ran(400)
           /\ UNCHANGED <<rate_limits, attempts, users, activity_log>>
      ELSE IF ~verify_password(data.current_password.value, user.password_hash)
      THEN /\ auth_resp' = ran(401)
           /\ UNCHANGED <<rate_limits, attempts, users, activity_log>>
      ELSE IF ~password_validation.valid
      THEN /\ auth_resp' = ran(400)
           /\ UNCHANGED <<rate_limits, attempts, users, activity_log>>
      ELSE IF db_fails = "user_commit"
      THEN /\ auth_resp' = ran(500)
           /\ UNCHANGED <<rate_limits, attempts, users, activity_log>>
      ELSE /\ users' = [users EXCEPT
                          ![user.id].password_hash =
                             hash_password(data.new_password.value, salt)]
           /\ IF db_fails = "log_commit"
              THEN auth_resp' = ran(500) /\ UNCHANGED activity_log
              ELSE /\ activity_log < MaxAuthRows
                   /\ activity_log' = activity_log + 1
                   /\ auth_resp' = ran(200)
           /\ UNCHANGED <<rate_limits, attempts>>

\* change_password behind require_auth and validate_input.  salt is the value
\* secrets.token_hex gives hash_password.
change_password(ip, header, body, salt, at_exp, db_fails) ==
  LET auth == require_auth(header, at_exp)
      user == auth.user
      validated == validate_input({"current_password", "new_password"},
                                  {"current_password", "new_password"}, body)
      data == validated.data
      password_validation == validate_password_strength(data.new_password.value)
      ran(status) ==
        [Protected("change_password", ip, header, status) EXCEPT
           !.handler_ran = TRUE, !.validated = validated.ok,
           !.password = IF validated.ok THEN data.current_password ELSE JsonAbsent,
           !.new_password = IF validated.ok THEN data.new_password ELSE JsonAbsent,
           !.user_id = user.id]
  IN  IF auth.status = 401
      THEN /\ auth_resp' = Protected("change_password", ip, header, 401)
           /\ UNCHANGED <<rate_limits, attempts, users, activity_log>>
      ELSE IF ~validated.ok
      THEN /\ auth_resp' = ran(400)
           /\ UNCHANGED <<rate_limits, attempts, users, activity_log>>
      ELSE IF ~verify_password(data.current_password.value, user.password_hash)
      THEN /\ auth_resp' = ran(401)
           /\ UNCHANGED <<rate_limits, attempts, users, activity_log>>
      ELSE IF ~password_validation.valid
      THEN /\ auth_resp' = ran(400)
           /\ UNCHANGED <<rate_limits, attempts, users, activity_log>>
      ELSE IF verify_password(data.new_password.value, user.password_hash)
      THEN /\ auth_resp' = ran(400)
           /\ UNCHANGED <<rate_limits, attempts, users, activity_log>>
      ELSE IF db_fails = "user_commit"
      THEN /\ auth_resp' = ran(500)
           /\ UNCHANGED <<rate_limits, attempts, users, activity_log>>
      ELSE /\ users' = [users EXCEPT
                          ![user.id].password_hash =
                             hash_password(data.new_password.value, salt)]
           /\ IF db_fails = "log_commit"
              THEN auth_resp' = ran(500) /\ UNCHANGED activity_log
              ELSE /\ activity_log < MaxAuthRows
                   /\ activity_log' = activity_log + 1
                   /\ auth_resp' = ran(200)
           /\ UNCHANGED <<rate_limits, attempts>>

ChangePasswordBody(current_password, new_password) ==
  [EmptyBody EXCEPT !.current_password = JsonStr(current_password),
                    !.new_password = JsonStr(new_password)]

\* Changes of password: with the right and with a wrong current password, to
\* a strong, a weak and the same new password, and bodies validate_input
\* turns away
ChangePasswordBodies ==
  { ChangePasswordBody(current_password, new_password) :
      current_password \in {Str_Passw0rd, Str_N3wPass, Str_password},
      new_password \in {Str_Passw0rd, Str_N3wPass, Str_password, Str_Passw0rd_lt} }
  \cup { EmptyBody,
         [EmptyBody EXCEPT !.current_password = JsonStr(Str_Passw0rd)],
         [ChangePasswordBody(Str_Passw0rd, Str_N3wPass) EXCEPT
            !.new_password = JsonInt(7)] }

\* Values of secrets.token_hex
PasswordSalts == {<<97, 49>>, <<98, 50>>}

PasswordHeaders ==
  { NoHeader, Header(<<Word, Space, Token(1, 2880, TRUE)>>) }

\* POST /auth/logout: behind require_auth, it adds the user_logout row to the
\* activity log and answers 200; a failure of the commit is not caught
logout(ip, header, at_exp, db_fails) ==
  LET auth == require_auth(header, at_exp)
      ran(status) ==
        [Protected("logout", ip, header, status) EXCEPT
           !.handler_ran = TRUE, !.user_id = auth.user.id]
  IN  IF auth.status = 401
      THEN /\ auth_resp' = Protected("logout", ip, header, 401)
           /\ UNCHANGED <<rate_limits, attempts, users, activity_log>>
      ELSE IF db_fails = "log_commit"
      THEN /\ auth_resp' = ran(500)
           /\ UNCHANGED <<rate_limits, attempts, users, activity_log>>
      ELSE /\ activity_log < MaxAuthRows
           /\ activity_log' = activity_log + 1
           /\ auth_resp' = ran(200)
           /\ UNCHANGED <<rate_limits, attempts, users>>
-----------------------------------------------------------------------------
\* The other authentication routes and the registered error handlers

\* The body of POST /auth/verify-token: not JSON, the JSON null, or an object
\* whose token, when it holds one, is a sequence of symbols
NotJsonToken == [is_json |-> FALSE, is_object |-> FALSE, present |-> FALSE, token |-> <<>>]

NullToken == [is_json |-> TRUE, is_object |-> FALSE, present |-> FALSE, token |-> <<>>]

NoToken == [is_json |-> TRUE, is_object |-> TRUE, present |-> FALSE, token |-> <<>>]

TokenBody(part) == [is_json |-> TRUE, is_object |-> TRUE, present |-> TRUE, token |-> part]

\* verify_token_route that reads request.json whatever the content type: for a
\* body that is not JSON, Flask answers 415
verify_token_route_any_content_type(ip, body, at_exp) ==
  LET payload == verify_token(body.token, now, at_exp)
      user == UserById(payload.user_id)
      status ==
        IF ~body.is_json THEN 415
        ELSE IF ~body.is_object THEN 500
        ELSE IF ~body.present \/ body.token = <<>> THEN 400
        ELSE IF payload.error # "" THEN 401
        ELSE IF user.id = 0 THEN 401
        ELSE 200
  IN  /\ auth_resp' = [Answer("verify_token", ip, status) EXCEPT
                         !.user_id = IF status = 200 THEN user.id ELSE 0]
      /\ UNCHANGED <<rate_limits, attempts, users, activity_log>>

\* POST /auth/verify-token.  request.json.get of a body that is not an object
\* raises AttributeError, which nothing catches.
verify_token_route(ip, body, at_exp) ==
  LET payload == verify_token(body.token, now, at_exp)
      user == UserById(payload.user_id)
      status ==
        IF ~body.is_json THEN 400
        ELSE IF ~body.is_object THEN 500
        ELSE IF ~body.present \/ body.token = <<>> THEN 400
        ELSE IF payload.error # "" THEN 401
        ELSE IF user.id = 0 THEN 401
        ELSE 200
  IN  /\ auth_resp' = [Answer("verify_token", ip, status) EXCEPT
                         !.user_id = IF status = 200 THEN user.id ELSE 0]
      /\ UNCHANGED <<rate_limits, attempts, users, activity_log>>

\* GET /auth/security-info: behind require_auth, the query orders by
\* ActivityLog.created_at, an attribute the model does not have, and the
\* AttributeError is not caught
get_security_info(ip, header, at_exp) ==
  LET auth == require_auth(header, at_exp)
  IN  /\ auth_resp' =
           IF auth.status = 401 THEN Protected("get_security_info", ip, header, 401)
           ELSE [Protected("get_security_info", ip, header, 500) EXCEPT
                   !.handler_ran = TRUE, !.user_id = auth.user.id]
      /\ UNCHANGED <<rate_limits, attempts, users, activity_log>>

\* The handlers of main.py: the status each answers with
unauthorized(error) == 401

forbidden(error) == 403

rate_limit_exceeded(error) == 429

\* The codes app.errorhandler registers a handler for
registered_codes == {401, 403, 429}

\* Flask hands an HTTPException whose code has a handler to that handler
handle_http_exception(code) ==
  /\ code \in registered_codes
  /\ auth_resp' =
       Answer("errorhandler", "",
              IF code = 401 THEN unauthorized(code)
              ELSE IF code = 403 THEN forbidden(code)
              ELSE rate_limit_exceeded(code))
  /\ UNCHANGED <<rate_limits, attempts, users, activity_log>>

\* The bodies verify_token_route is called with
TokenBodies ==
  { NotJsonToken, NullToken, NoToken, TokenBody(<<>>), TokenBody(<<Word>>),
    TokenBody(<<Token(1, 2880, TRUE)>>), TokenBody(<<Token(2, 2880, TRUE)>>),
    TokenBody(<<Token(1, 2880, FALSE)>>) }
-----------------------------------------------------------------------------
\* login and register as the threads of the server run them: the handler of a
\* request is a thread, and between its rate_limit_check and its
\* record_attempt the threads of other requests run.  _rate_limits has no lock.

VARIABLE
  requests   \* thread -> the request it serves and where its handler stands

Threads == {1, 2}

\* A run records at most MaxRacingLogins failed logins.
MaxRacingLogins == 6

Idle == [pc |-> "idle", route |-> "", ip |-> "", data |-> EmptyBody]

\* login up to the answer of rate_limit_check
login_enter(thread, ip, body) ==
  LET validated == validate_input({"username", "password"},
                                  {"username", "password"}, body)
      rate_check == rate_limit_check(Identifier("login", ip), MAX_LOGIN_ATTEMPTS, 15)
  IN  /\ requests[thread].pc = "idle"
      /\ IF ~validated.ok
         THEN /\ auth_resp' = Answer("login", ip, 400)
              /\ UNCHANGED <<rate_limits, requests>>
         ELSE IF ~rate_check.allowed
         THEN /\ auth_resp' = [Answer("login", ip, 429) EXCEPT !.validated = TRUE]
              /\ rate_limits' = rate_check.limits
              /\ UNCHANGED requests
         ELSE /\ rate_limits' = rate_check.limits
              /\ requests' = [requests EXCEPT
                                ![thread] = [pc |-> "checked", route |-> "login",
                                             ip |-> ip, data |-> validated.data]]
              /\ UNCHANGED auth_resp
      /\ UNCHANGED <<attempts, users, activity_log>>

\* login after rate_limit_check has let the request through
login_leave(thread, db_fails) ==
  LET ip == requests[thread].ip
      data == requests[thread].data
      identifier == Identifier("login", ip)
      user == UserByUsernameOrEmail(data.username.value)
      answer(status) ==
        [Answer("login", ip, status) EXCEPT !.validated = TRUE]
      failed == Store(attempts, identifier,
                      Append(AttemptsOf(attempts, identifier), now))
  IN  /\ requests[thread].pc = "checked"
      /\ requests[thread].route = "login"
      /\ requests' = [requests EXCEPT ![thread] = Idle]
      /\ IF user.id = 0
         THEN /\ Counted("login") < MaxRacingLogins
              /\ rate_limits' = record_attempt(rate_limits, identifier)
              /\ attempts' = failed
              /\ auth_resp' = [answer(401) EXCEPT !.looked_up = TRUE]
              /\ UNCHANGED <<users, activity_log>>
         ELSE IF ~verify_password(data.password.value, user.password_hash)
         THEN /\ Counted("login") < MaxRacingLogins
              /\ activity_log < MaxAuthRows
              /\ rate_limits' = record_attempt(rate_limits, identifier)
              /\ attempts' = failed
              /\ activity_log' = activity_log + 1
              /\ auth_resp' = [answer(401) EXCEPT !.looked_up = TRUE,
                                                  !.user_id = user.id]
              /\ UNCHANGED users
         ELSE IF db_fails # "none"
         THEN /\ auth_resp' = [answer(500) EXCEPT !.looked_up = TRUE,
                                                  !.user_id = user.id]
              /\ UNCHANGED <<rate_limits, attempts, users, activity_log>>
         ELSE /\ activity_log < MaxAuthRows
              /\ activity_log' = activity_log + 1
              /\ auth_resp' = [answer(200) EXCEPT !.looked_up = TRUE,
                                                  !.user_id = user.id,
                                                  !.token = generate_token(user.id, now)]
              /\ UNCHANGED <<rate_limits, attempts, users>>

\* register up to the answer of rate_limit_check
register_enter(thread, ip, body) ==
  LET validated == validate_input({"username", "email", "password"},
                                  {"username", "email", "password"}, body)
      rate_check == rate_limit_check(Identifier("register", ip), 3, 60)
  IN  /\ requests[thread].pc = "idle"
      /\ IF ~validated.ok
         THEN /\ auth_resp' = Answer("register", ip, 400)
              /\ UNCHANGED <<rate_limits, requests>>
         ELSE IF ~rate_check.allowed
         THEN /\ auth_resp' = Validated("register", ip, validated.data, 429)
              /\ rate_limits' = rate_check.limits
              /\ UNCHANGED requests
         ELSE /\ rate_limits' = rate_check.limits
              /\ requests' = [requests EXCEPT
                                ![thread] = [pc |-> "checked", route |-> "register",
                                             ip |-> ip, data |-> validated.data]]
              /\ UNCHANGED auth_resp
      /\ UNCHANGED <<attempts, users, activity_log>>

\* register from record_attempt on
register_leave(thread, salt, db_fails) ==
  LET ip == requests[thread].ip
      data == requests[thread].data
      identifier == Identifier("register", ip)
  IN  /\ requests[thread].pc = "checked"
      /\ requests[thread].route = "register"
      /\ requests' = [requests EXCEPT ![thread] = Idle]
      /\ Counted("register") < MaxRegistrations
      /\ rate_limits' = record_attempt(rate_limits, identifier)
      /\ attempts' = Store(attempts, identifier,
                           Append(AttemptsOf(attempts, identifier), now))
      /\ register_checked(ip, data, data, salt, db_fails)
-----------------------------------------------------------------------------
\* Specifications

enginevars == <<industry_keywords, platform_weights, sim_call, sim_first, sim_calls>>

dbvars == <<contacts, connections, ai_analyses, activity_log, social_profiles, resp>>

connvars == <<contacts, connections, ai_analyses, social_profiles, resp>>

authvars == <<now, rate_limits, attempts, users, auth_resp, requests>>

vars ==
  <<industry_keywords, platform_weights, sim_call, sim_first, sim_calls, pwd_call,
    density_call,
    contacts, connections, ai_analyses, activity_log, social_profiles, resp,
    now, rate_limits, attempts, users, auth_resp, requests>>

Init ==
  /\ industry_keywords = InitIndustryKeywords
  /\ platform_weights = InitPlatformWeights
  /\ sim_call = NoCall
  /\ sim_first = NoCall
  /\ sim_calls = 0
  /\ pwd_call = NoPwdCall
  /\ density_call = NoDensityCall
  /\ contacts = <<>>
  /\ connections = <<>>
  /\ ai_analyses = 0
  /\ activity_log = 0
  /\ social_profiles = <<>>
  /\ resp = NoResp
  /\ now = 0
  /\ rate_limits = <<>>
  /\ attempts = <<>>
  /\ users = <<>>
  /\ auth_resp = NoAuthResp
  /\ requests = [thread \in Threads |-> Idle]

\* The similarity engine alone
NextSim ==
  \/ \E contact1, contact2 \in SimDomain(sim_calls) :
       AnalyzeContactSimilarity(contact1, contact2) /\ UNCHANGED <<pwd_call, density_call, dbvars, authvars>>
  \/ RememberCall /\ UNCHANGED <<pwd_call, density_call, dbvars, authvars>>

SpecSim == Init /\ [][NextSim]_vars

\* The password check alone
NextPwd ==
  \E password \in PwdInputs :
    ValidatePasswordStrength(password)
      /\ UNCHANGED <<enginevars, density_call, dbvars, authvars>>

SpecPwd == Init /\ [][NextPwd]_vars

\* The contact and connection routes
NextConn ==
  \/ \E r \in ContactRequests :
       create_contact(r[1], r[2]) /\ UNCHANGED <<enginevars, pwd_call, density_call, social_profiles, authvars>>
  \/ create_contact_missing_field /\ UNCHANGED <<enginevars, pwd_call, density_call, social_profiles, authvars>>
  \/ \E user_id \in UserIds \cup {NoValue, 0} :
       generate_connections(user_id) /\ UNCHANGED <<enginevars, pwd_call, density_call, social_profiles, authvars>>
  \/ \E connection_id \in 1..(Len(connections) + 1), status \in StatusInputs :
       update_connection_status(connection_id, status)
         /\ UNCHANGED <<enginevars, pwd_call, density_call, social_profiles, authvars>>

SpecConn == Init /\ [][NextConn]_vars

\* Logins, before and after the one registration of alice, as the clock moves
\* by 10 minutes up to MaxLoginMinutes.  The second address only sends a wrong
\* password.
MaxLoginMinutes == 20

NextLogin ==
  \/ users = <<>>
       /\ register("10.0.0.1", RegisterBody(Str_alice, Str_a_x_io, Str_Passw0rd),
                   <<97, 49>>, "none")
       /\ UNCHANGED <<now, requests, enginevars, pwd_call, density_call, connvars>>
  \/ \E body \in LoginBodies, db_fails \in {"none", "log_commit"} :
       login("10.0.0.1", body, db_fails)
         /\ UNCHANGED <<now, requests, enginevars, pwd_call, density_call, connvars>>
  \/ login("10.0.0.2", LoginBody(Str_alice, Str_password), "none")
       /\ UNCHANGED <<now, requests, enginevars, pwd_call, density_call, connvars>>
  \/ now + 10 <= MaxLoginMinutes /\ Tick(10)
       /\ UNCHANGED <<requests, enginevars, pwd_call, density_call, dbvars>>

SpecLogin == Init /\ [][NextLogin]_vars

\* Registrations, as the clock moves by 40 minutes up to MaxRegisterMinutes.
\* The second address only sends the registration of alice.
MaxRegisterMinutes == 80

NextRegister ==
  \/ \E body \in NewUserBodies \cup RejectedBodies \cup InvalidBodies,
        salt \in Salts, db_fails \in DbFailures :
       register("10.0.0.1", body, salt, db_fails)
         /\ UNCHANGED <<now, requests, enginevars, pwd_call, density_call, connvars>>
  \/ register("10.0.0.2", RegisterBody(Str_alice, Str_a_x_io, Str_Passw0rd),
              <<97, 49>>, "none")
       /\ UNCHANGED <<now, requests, enginevars, pwd_call, density_call, connvars>>
  \/ now + 40 <= MaxRegisterMinutes /\ Tick(40)
       /\ UNCHANGED <<requests, enginevars, pwd_call, density_call, dbvars>>

SpecRegister == Init /\ [][NextRegister]_vars

\* Registrations and requests to the routes behind require_auth, as the clock
\* moves by 24 hours up to MaxProfileMinutes
MaxProfileMinutes == 1440

NextProfile ==
  \/ \E body \in NewUserBodies \cup DuplicateBodies :
       register("10.0.0.1", body, <<97, 49>>, "none")
         /\ UNCHANGED <<now, requests, enginevars, pwd_call, density_call, connvars>>
  \/ \E header \in Headers : \E at_exp \in ExpiryChoices(header, now) :
       get_profile("10.0.0.1", header, at_exp)
         /\ UNCHANGED <<now, requests, enginevars, pwd_call, density_call, connvars>>
  \/ \E header \in ProfileHeaders, body \in ProfileBodies, db_fails \in DbFailures :
       \E at_exp \in ExpiryChoices(header, now) :
         update_profile("10.0.0.1", header, body, at_exp, db_fails)
         /\ UNCHANGED <<now, requests, enginevars, pwd_call, density_call, connvars>>
  \/ now + 1440 <= MaxProfileMinutes /\ Tick(1440)
       /\ UNCHANGED <<requests, enginevars, pwd_call, density_call, dbvars>>

SpecProfile == Init /\ [][NextProfile]_vars

\* The registration of alice and requests to change her password
NextPassword ==
  \/ users = <<>>
       /\ register("10.0.0.1", RegisterBody(Str_alice, Str_a_x_io, Str_Passw0rd),
                   <<97, 49>>, "none")
       /\ UNCHANGED <<now, requests, enginevars, pwd_call, density_call, connvars>>
  \/ \E header \in PasswordHeaders, body \in ChangePasswordBodies,
        salt \in PasswordSalts, db_fails \in DbFailures :
       change_password("10.0.0.1", header, body, salt, TRUE, db_fails)
         /\ UNCHANGED <<now, requests, enginevars, pwd_call, density_call, connvars>>

SpecPassword == Init /\ [][NextPassword]_vars

\* Contacts of user 1, as many as MaxProfiles, and requests to the social
\* profile routes, for contacts and profiles that exist and for the first id
\* that does not
NextSocial ==
  \/ Len(contacts) < MaxProfiles
       /\ create_contact(1, [industry |-> Str_Software, location |-> Str_MadridSpain,
                            company |-> Str_AcmeLabs, position |-> Str_Analista])
       /\ UNCHANGED <<enginevars, pwd_call, density_call, social_profiles, authvars>>
  \/ \E contact_id \in 1..(Len(contacts) + 1), body \in CreateProfileBodies :
       create_social_profile(contact_id, body)
         /\ UNCHANGED <<enginevars, pwd_call, density_call, authvars>>
  \/ \E profile_id \in 1..NextProfileId, body \in UpdateProfileBodies :
       update_social_profile(profile_id, body)
         /\ UNCHANGED <<enginevars, pwd_call, density_call, authvars>>
  \/ \E profile_id \in 1..NextProfileId :
       delete_social_profile(profile_id)
         /\ UNCHANGED <<enginevars, pwd_call, density_call, authvars>>

SpecSocial == Init /\ [][NextSocial]_vars

\* Sessions: the registration of alice, logins, logouts and requests for the
\* profile, as the clock moves by 24 hours up to MaxSessionMinutes
MaxSessionMinutes == 1440

NextSession ==
  \/ users = <<>>
       /\ register("10.0.0.1", RegisterBody(Str_alice, Str_a_x_io, Str_Passw0rd),
                   <<97, 49>>, "none")
       /\ UNCHANGED <<now, requests, enginevars, pwd_call, density_call, connvars>>
  \/ login("10.0.0.1", LoginBody(Str_alice, Str_Passw0rd), "none")
       /\ UNCHANGED <<now, requests, enginevars, pwd_call, density_call, connvars>>
  \/ \E header \in Headers, db_fails \in {"none", "log_commit"} :
       \E at_exp \in ExpiryChoices(header, now) :
         logout("10.0.0.1", header, at_exp, db_fails)
         /\ UNCHANGED <<now, requests, enginevars, pwd_call, density_call, connvars>>
  \/ \E header \in Headers : \E at_exp \in ExpiryChoices(header, now) :
       get_profile("10.0.0.1", header, at_exp)
         /\ UNCHANGED <<now, requests, enginevars, pwd_call, density_call, connvars>>
  \/ now + 1440 <= MaxSessionMinutes /\ Tick(1440)
       /\ UNCHANGED <<requests, enginevars, pwd_call, density_call, dbvars>>

SpecSession == Init /\ [][NextSession]_vars

\* Every authentication route and every registered error handler, at one
\* instant, or else the contact, connection and social profile routes, for
\* requests that bring out each of their answers
StatusContactBodies ==
  { [industry |-> Str_Software, location |-> Str_MadridSpain,
     company |-> Str_AcmeLabs, position |-> Str_Analista],
    [industry |-> NULL, location |-> NULL, company |-> NULL, position |-> NULL] }

StatusRegisterBodies ==
  { RegisterBody(Str_alice, Str_a_x_io, Str_Passw0rd),
    RegisterBody(Str_carol, Str_a_x_io, Str_Passw0rd),
    RegisterBody(Str_al, Str_c_x_io, Str_Passw0rd),
    EmptyBody }

StatusLoginBodies ==
  { LoginBody(Str_alice, Str_Passw0rd), LoginBody(Str_alice, Str_password),
    [EmptyBody EXCEPT !.is_json = FALSE] }

StatusPasswordBodies ==
  { ChangePasswordBody(Str_Passw0rd, Str_N3wPass),
    ChangePasswordBody(Str_password, Str_N3wPass),
    ChangePasswordBody(Str_Passw0rd, Str_password),
    ChangePasswordBody(Str_Passw0rd, Str_Passw0rd),
    [EmptyBody EXCEPT !.current_password = JsonStr(Str_Passw0rd)] }

StatusProfileBodies ==
  { NullBody, SocialBody(Absent, Present("ana"), Absent),
    SocialBody(Present("tiktok"), Present("ana"), Absent),
    SocialBody(Present("myspace"), Present("ana"), Absent) }

NextStatus ==
  \/ resp = NoResp
       /\ \E body \in StatusRegisterBodies, db_fails \in {"none", "user_commit"} :
            register("10.0.0.1", body, <<97, 49>>, db_fails)
              /\ UNCHANGED <<now, requests, enginevars, pwd_call, density_call, connvars>>
  \/ resp = NoResp
       /\ \E body \in StatusLoginBodies, db_fails \in {"none", "log_commit"} :
            login("10.0.0.1", body, db_fails)
              /\ UNCHANGED <<now, requests, enginevars, pwd_call, density_call, connvars>>
  \/ resp = NoResp
       /\ \E header \in PasswordHeaders, db_fails \in {"none", "log_commit"} :
            logout("10.0.0.1", header, TRUE, db_fails)
              /\ UNCHANGED <<now, requests, enginevars, pwd_call, density_call, connvars>>
  \/ resp = NoResp
       /\ \E header \in PasswordHeaders :
            get_profile("10.0.0.1", header, TRUE)
              /\ UNCHANGED <<now, requests, enginevars, pwd_call, density_call, connvars>>
  \/ resp = NoResp
       /\ \E header \in PasswordHeaders, body \in ProfileBodies,
             db_fails \in {"none", "user_commit"} :
            update_profile("10.0.0.1", header, body, TRUE, db_fails)
              /\ UNCHANGED <<now, requests, enginevars, pwd_call, density_call, connvars>>
  \/ resp = NoResp
       /\ \E header \in PasswordHeaders, body \in StatusPasswordBodies,
             db_fails \in {"none", "user_commit"} :
            change_password("10.0.0.1", header, body, <<97, 49>>, TRUE, db_fails)
              /\ UNCHANGED <<now, requests, enginevars, pwd_call, density_call, connvars>>
  \/ resp = NoResp
       /\ \E body \in TokenBodies :
            verify_token_route("10.0.0.1", body, TRUE)
              /\ UNCHANGED <<now, requests, enginevars, pwd_call, density_call, connvars>>
  \/ resp = NoResp
       /\ \E header \in PasswordHeaders :
            get_security_info("10.0.0.1", header, TRUE)
              /\ UNCHANGED <<now, requests, enginevars, pwd_call, density_call, connvars>>
  \/ resp = NoResp
       /\ \E code \in registered_codes :
            handle_http_exception(code)
              /\ UNCHANGED <<now, requests, enginevars, pwd_call, density_call, connvars>>
  \/ auth_resp = NoAuthResp /\ Len(contacts) < MaxProfiles
       /\ \E body \in StatusContactBodies :
            create_contact(1, body)
              /\ UNCHANGED <<enginevars, pwd_call, density_call, social_profiles, authvars>>
  \/ auth_resp = NoAuthResp
       /\ create_contact_missing_field
       /\ UNCHANGED <<enginevars, pwd_call, density_call, social_profiles, authvars>>
  \/ auth_resp = NoAuthResp
       /\ \E user_id \in {1, NoValue} :
            generate_connections(user_id)
              /\ UNCHANGED <<enginevars, pwd_call, density_call, social_profiles, authvars>>
  \/ auth_resp = NoAuthResp
       /\ \E connection_id \in 1..(Len(connections) + 1),
             status \in {Absent, Present("accepted"), Present("archived")} :
            update_connection_status(connection_id, status)
              /\ UNCHANGED <<enginevars, pwd_call, density_call, social_profiles, authvars>>
  \/ auth_resp = NoAuthResp
       /\ \E contact_id \in 1..(Len(contacts) + 1), body \in StatusProfileBodies :
            create_social_profile(contact_id, body)
              /\ UNCHANGED <<enginevars, pwd_call, density_call, authvars>>
  \/ auth_resp = NoAuthResp
       /\ \E profile_id \in 1..NextProfileId :
            update_social_profile(profile_id, NullBody)
              /\ UNCHANGED <<enginevars, pwd_call, density_call, authvars>>
  \/ auth_resp = NoAuthResp
       /\ \E profile_id \in 1..NextProfileId :
            delete_social_profile(profile_id)
              /\ UNCHANGED <<enginevars, pwd_call, density_call, authvars>>

SpecStatus == Init /\ [][NextStatus]_vars

\* The network density alone
NextDensity ==
  /\ ~density_call.called
  /\ \E list \in DensityInputs :
       CalculateNetworkDensity(list)
         /\ UNCHANGED <<enginevars, pwd_call, dbvars, authvars>>

SpecDensity == Init /\ [][NextDensity]_vars

\* Two threads serve the logins and the registrations of one address, as the
\* clock moves by 10 minutes up to MaxRaceMinutes
MaxRaceMinutes == 10

NextRace ==
  \/ \E thread \in Threads,
        body \in {LoginBody(Str_alice, Str_Passw0rd), LoginBody(Str_alice, Str_password),
                  EmptyBody} :
       login_enter(thread, "10.0.0.1", body)
         /\ UNCHANGED <<now, enginevars, pwd_call, density_call, connvars>>
  \/ \E thread \in Threads :
       login_leave(thread, "none")
         /\ UNCHANGED <<now, enginevars, pwd_call, density_call, connvars>>
  \/ \E thread \in Threads,
        body \in {RegisterBody(Str_alice, Str_a_x_io, Str_Passw0rd), EmptyBody} :
       register_enter(thread, "10.0.0.1", body)
         /\ UNCHANGED <<now, enginevars, pwd_call, density_call, connvars>>
  \/ \E thread \in Threads :
       register_leave(thread, <<97, 49>>, "none")
         /\ UNCHANGED <<now, enginevars, pwd_call, density_call, connvars>>
  \/ now + 10 <= MaxRaceMinutes /\ Tick(10)
       /\ UNCHANGED <<requests, enginevars, pwd_call, density_call, dbvars>>

SpecRace == Init /\ [][NextRace]_vars

-----
\* Claims

InUnit(x) == RLeq(Rat(0, 1), x) /\ RLeq(x, Rat(1, 1))

\* C1: for every pair of contact records analyze_contact_similarity returns
\* similarity_score = min(1, 0.3*industry + 0.25*location + 0.2*company
\* + 0.15*social + 0.1*level), each of the five factor scores lies in [0,1],
\* and so the returned similarity_score lies in [0,1].
C1_ScoreIsWeightedSum ==
  sim_call.called =>
    LET c1 == sim_call.contact1
        c2 == sim_call.contact2
        industry == _calculate_industry_similarity(industry_keywords, c1, c2)
        location == _calculate_location_similarity(c1, c2)
        company == _calculate_company_similarity(c1, c2)
        social == _calculate_social_similarity(platform_weights, c1, c2)
        level == _calculate_professional_level_similarity(c1, c2)
        sum == RAdd(RAdd(RAdd(RAdd(RMul(Rat(3, 10), industry),
                                   RMul(Rat(25, 100), location)),
                              RMul(Rat(2, 10), company)),
                         RMul(Rat(15, 100), social)),
                    RMul(Rat(1, 10), level))
    IN  /\ sim_call.result.raised = ""
        /\ \A x \in {industry, location, company, social, level} : InUnit(x)
        /\ sim_call.result.similarity_score = RMin(Rat(1, 1), sum)
        /\ InUnit(sim_call.result.similarity_score)

C6_ValidIffAllRequirements ==
  pwd_call.called =>
    LET password == pwd_call.password
        violated ==
          { r \in {"length", "uppercase", "lowercase", "number", "special"} :
              \/ r = "length" /\ ~(Len(password) >= 8)
              \/ r = "uppercase" /\ \A i \in 1..Len(password) : ~IsUpper(password[i])
              \/ r = "lowercase" /\ \A i \in 1..Len(password) : ~IsLower(password[i])
              \/ r = "number" /\ \A i \in 1..Len(password) : ~IsDigit(password[i])
              \/ r = "special" /\ \A i \in 1..Len(password) : password[i] \notin special_chars }
        errors == pwd_call.result.errors
    IN  /\ pwd_call.result.valid <=> violated = {}
        /\ Len(errors) = Cardinality(violated)
        /\ { errors[i] : i \in 1..Len(errors) } = violated

\* C6 happens: a password of exactly 8 characters that meets every requirement.
C6_Witness ==
  /\ pwd_call.called
  /\ Len(pwd_call.password) = 8
  /\ pwd_call.result.valid

\* C8: generate_connections persists a new Connection, with status pending and
\* confidence_score equal to the similarity score, for exactly those pairs
\* (i, j), i before j, of the user's contacts whose score is at least 0.3 and
\* for which no Connection (user_id, contact_id, suggested_contact_id) is
\* stored, and creates no Connection for any other pair.
C8_PersistsQualifyingPairs ==
  [][(/\ resp'.route = "generate_connections"
      /\ resp'.user_id \in UserIds
      /\ Len(ContactsOf(resp'.user_id)) >= 2)
     => LET user_id == resp'.user_id
            list == ContactsOf(user_id)
            qualifying ==
              { p \in PairsOf(list) :
                  /\ Analyses(list)[p].raised = ""
                  /\ RLeq(Rat(3, 10), Analyses(list)[p].similarity_score)
                  /\ ~Existing(user_id, list[p[1]].id, list[p[2]].id) }
            added == (Len(connections) + 1)..Len(connections')
        IN  /\ Len(connections') >= Len(connections)
            /\ Cardinality(added) = Cardinality(qualifying)
            /\ \A p \in qualifying : \E k \in added :
                 /\ connections'[k].user_id = user_id
                 /\ connections'[k].contact_id = list[p[1]].id
                 /\ connections'[k].suggested_contact_id = list[p[2]].id
                 /\ connections'[k].status = "pending"
                 /\ connections'[k].confidence_score
                      = Analyses(list)[p].similarity_score]_vars

Recent(identifier, window) ==
  LET times == AttemptsOf(attempts, identifier)
  IN  Cardinality({ i \in 1..Len(times) : now - times[i] < window })

\* C3: a login request that validate_input lets through is answered 429,
\* before the user is searched by the credentials, exactly when 5 or more
\* failed logins (unknown user or wrong password) from its address were
\* counted in the 15 minutes before it; with fewer the user is searched.
C3_LoginRateLimit ==
  [][(auth_resp'.route = "login" /\ auth_resp'.validated /\ now' = now)
     => LET recent == Recent(Identifier("login", auth_resp'.ip), 15)
        IN  /\ auth_resp'.status = 429 <=> recent >= 5
            /\ auth_resp'.status = 429 => ~auth_resp'.looked_up
            /\ recent < 5 => auth_resp'.looked_up]_vars

\* C3 happens: a login is answered 429 without a search for the user, after 5
\* failed logins from its address of which one is 10 minutes old and one has
\* left a row in the activity log (a wrong password).
C3_Witness ==
  /\ auth_resp.route = "login"
  /\ auth_resp.status = 429
  /\ ~auth_resp.looked_up
  /\ now = 10
  /\ Recent(Identifier("login", auth_resp.ip), 15) = 5
  /\ AttemptsOf(attempts, Identifier("login", auth_resp.ip))[1] = 0
  /\ activity_log >= 2

\* C4: a register request that validate_input lets through is answered 429
\* exactly when 3 or more registration attempts from its address were counted
\* in the 60 minutes before it; when it is not answered 429 it is answered
\* 201, 400, 409 or 500 and one attempt, at the time of the request, is added
\* to the attempts the rate limiter holds for the address.
C4_RegisterRateLimit ==
  [][(auth_resp'.route = "register" /\ auth_resp'.validated /\ now' = now)
     => LET identifier == Identifier("register", auth_resp'.ip)
            held == SelectSeq(AttemptsOf(rate_limits, identifier),
                              LAMBDA attempt : now - attempt < 60)
        IN  /\ auth_resp'.status = 429 <=> Recent(identifier, 60) >= 3
            /\ auth_resp'.status # 429 =>
                 /\ auth_resp'.status \in {201, 400, 409, 500}
                 /\ AttemptsOf(rate_limits', identifier) = Append(held, now)]_vars

\* C4 happens: a registration is answered 429 after 3 attempts from its address
\* of which one created the only user and the others were turned away.
C4_Witness ==
  /\ auth_resp.route = "register"
  /\ auth_resp.status = 429
  /\ Recent(Identifier("register", auth_resp.ip), 60) = 3
  /\ Len(users) = 1
  /\ activity_log = 1

\* The token of the second space-separated part of a header, if it is one
CarriesToken(header) ==
  /\ header.present
  /\ Len(split_space(header.value)) >= 2
  /\ IsTokenPart(split_space(header.value)[2])

\* C5: the function behind require_auth runs only for a request with an
\* Authorization header whose second space-separated part is a token with a
\* valid signature, not expired, whose user_id is the id of a user; every
\* other request is answered 401 and the function does not run.
C5_HandlerOnlyWithValidToken ==
  [][(auth_resp'.route \in {"get_profile", "update_profile"} /\ now' = now)
     => LET header == auth_resp'.header
            token == split_space(header.value)[2][1]
            accepted == /\ CarriesToken(header)
                        /\ token.signed
                        /\ token.exp >= now
                        /\ \E k \in 1..Len(users) : users[k].id = token.user_id
        IN  /\ auth_resp'.handler_ran => accepted
            /\ ~auth_resp'.handler_ran => auth_resp'.status = 401
            /\ ~accepted => ~auth_resp'.handler_ran]_vars

\* C5 happens: update_profile has run for the second user, a day after the
\* start, on a token that expires a day later.
C5_Witness ==
  /\ auth_resp.route = "update_profile"
  /\ auth_resp.handler_ran
  /\ auth_resp.status = 200
  /\ auth_resp.user_id = 2
  /\ now = 1440

NoTwoUsersShare ==
  \A i, j \in 1..Len(users) :
    i # j => users[i].username # users[j].username /\ users[i].email # users[j].email

UsernameOrEmailExists(username, email) ==
  \E k \in 1..Len(users) : users[k].username = username \/ users[k].email = email

EmailOfAnother(email, user_id) ==
  \E k \in 1..Len(users) : users[k].email = email /\ users[k].id # user_id

\* C7 as stated: no two users ever share a username or an email; a register
\* request whose username or email exists, and an update_profile request whose
\* email is that of another user, are answered 409 and leave the users as they
\* were.
C7_DuplicateAnswered409 ==
  /\ []NoTwoUsersShare
  /\ [][/\ (/\ auth_resp'.route = "register" /\ auth_resp'.validated /\ now' = now
            /\ UsernameOrEmailExists(auth_resp'.username.value, auth_resp'.email.value))
           => auth_resp'.status = 409 /\ users' = users
        /\ (/\ auth_resp'.route = "update_profile" /\ auth_resp'.validated /\ now' = now
            /\ auth_resp'.email.kind = "str"
            /\ EmailOfAnother(auth_resp'.email.value, auth_resp'.user_id))
           => auth_resp'.status = 409 /\ users' = users]_vars

\* C7, amended: no two users ever share a username or an email; a register
\* request whose username or email exists is answered 429 when the rate limit
\* is reached, else 400 when its email, password or username is not valid,
\* else 409; an update_profile request of an authenticated user whose email is
\* that of another user is answered 409; all of them leave the users as they
\* were.
C7_DuplicateLeavesUsers ==
  /\ []NoTwoUsersShare
  /\ [][/\ (/\ auth_resp'.route = "register" /\ auth_resp'.validated /\ now' = now
            /\ UsernameOrEmailExists(auth_resp'.username.value, auth_resp'.email.value))
           => LET username == auth_resp'.username.value
                  limited == Recent(Identifier("register", auth_resp'.ip), 60) >= 3
                  valid == /\ validate_email(auth_resp'.email.value)
                           /\ validate_password_strength(auth_resp'.password.value).valid
                           /\ Len(username) >= 3 /\ Len(username) <= 50
                           /\ username_matches(username)
              IN  /\ users' = users
                  /\ auth_resp'.status =
                       IF limited THEN 429 ELSE IF ~valid THEN 400 ELSE 409
        /\ (/\ auth_resp'.route = "update_profile" /\ auth_resp'.validated /\ now' = now
            /\ auth_resp'.email.kind = "str"
            /\ EmailOfAnother(auth_resp'.email.value, auth_resp'.user_id))
           => auth_resp'.status = 409 /\ users' = users]_vars

\* C7 happens: with two users, update_profile has answered 409 to the second
\* user, who asked for the email of the first.
C7_Witness ==
  /\ auth_resp.route = "update_profile"
  /\ auth_resp.status = 409
  /\ auth_resp.user_id = 2
  /\ Len(users) = 2
  /\ users[1].email = auth_resp.email.value

\* C11: a change_password request that reaches the handler replaces the
\* stored password hash only when the current password of the request
\* verifies against it, the new password passes validate_password_strength
\* and the new password does not verify against it; a wrong current password
\* is answered 401, a weak new password 400 and an unchanged password 400,
\* each leaving the users as they were; and after a 200 the new password
\* verifies against the stored hash while the old one no longer does.
C11_ChangePasswordStep ==
  LET user_id == auth_resp'.user_id
      current_password == auth_resp'.password.value
      new_password == auth_resp'.new_password.value
      stored == users[user_id].password_hash
      current_ok == verify_password(current_password, stored)
      strong == validate_password_strength(new_password).valid
      same == verify_password(new_password, stored)
  IN  (/\ auth_resp'.route = "change_password"
       /\ auth_resp'.handler_ran
       /\ auth_resp'.validated)
      => /\ users'[user_id].password_hash # stored
              => (current_ok /\ strong /\ ~same)
         /\ ~current_ok => (auth_resp'.status = 401 /\ users' = users)
         /\ (current_ok /\ ~strong) => (auth_resp'.status = 400 /\ users' = users)
         /\ (current_ok /\ strong /\ same)
              => (auth_resp'.status = 400 /\ users' = users)
         /\ auth_resp'.status \in {400, 401} => users' = users
         /\ auth_resp'.status = 200
              => /\ verify_password(new_password, users'[user_id].password_hash)
                 /\ ~verify_password(current_password,
                                     users'[user_id].password_hash)

C11_ChangePassword == [][C11_ChangePasswordStep]_vars

\* The password of alice was changed twice: the last change, answered 200,
\* gave her a password that verifies, under a salt of its own, and the one she
\* registered with no longer does
C11_Witness ==
  /\ auth_resp.route = "change_password"
  /\ auth_resp.status = 200
  /\ Len(users) = 1
  /\ users[1].password_hash.salt # <<97, 49>>
  /\ verify_password(auth_resp.new_password.value, users[1].password_hash)
  /\ ~verify_password(auth_resp.password.value, users[1].password_hash)
  /\ activity_log = 3

\* C12: every response of a route, of require_auth, of validate_input or of a
\* registered error handler that is an error response has a status of
\* error_statuses.
error_statuses == {400, 401, 403, 404, 409, 429, 500}

C13_StoredPlatformsValid ==
  \A i \in 1..Len(social_profiles) : social_profiles[i].platform \in valid_platforms

OtherPlatformCreation ==
  /\ resp'.route = "create_social_profile"
  /\ resp'.platform.present
  /\ resp'.platform.value \notin valid_platforms

C13_UpdateKeepsPlatformAndContact ==
  resp'.route = "update_social_profile"
    => /\ Len(social_profiles') = Len(social_profiles)
       /\ \A i \in 1..Len(social_profiles) :
            /\ social_profiles'[i].id = social_profiles[i].id
            /\ social_profiles'[i].platform = social_profiles[i].platform
            /\ social_profiles'[i].contact_id = social_profiles[i].contact_id

C13_SocialStep ==
  /\ OtherPlatformCreation
       => /\ social_profiles' = social_profiles
          /\ resp'.status = IF ContactExists(resp'.contact_id) THEN 400 ELSE 404
  /\ C13_UpdateKeepsPlatformAndContact

C13_PlatformsStayValid == []C13_StoredPlatformsValid /\ [][C13_SocialStep]_vars

\* C13 as it is worded: the creation with another platform is answered 400
C13_OtherPlatformAnswered400 ==
  [][OtherPlatformCreation => resp'.status = 400]_vars

\* An update whose body carries the platform 'myspace' and a contact_id was
\* answered 200, and the profile still is the tiktok profile of contact 1
C13_Witness ==
  /\ resp.route = "update_social_profile"
  /\ resp.status = 200
  /\ resp.platform = Present("myspace")
  /\ \E i \in 1..Len(social_profiles) :
       /\ social_profiles[i].id = resp.profile_id
       /\ social_profiles[i].platform = "tiktok"
       /\ social_profiles[i].contact_id = 1
       /\ social_profiles[i].username = "eva"

\* C14: calculate_network_density returns 0 for fewer than 2 contacts and
\* otherwise the number of unordered pairs of contacts that share a non-empty
\* equal industry, location or company, divided by n(n-1)/2; the result lies
\* in [0,1].
NonEmpty(value) == value # NULL /\ Len(value) > 0

SharingPairs(list) ==
  { pair \in SUBSET (1..Len(list)) :
      /\ Cardinality(pair) = 2
      /\ \E i \in pair, j \in pair :
           /\ i < j
           /\ \/ (NonEmpty(list[i].industry) /\ list[i].industry = list[j].industry)
              \/ (NonEmpty(list[i].location) /\ list[i].location = list[j].location)
              \/ (NonEmpty(list[i].company) /\ list[i].company = list[j].company) }

C14_DensityIsShareOfPairs ==
  density_call.called
    => LET list == density_call.contacts
           n == Len(list)
       IN  /\ n < 2 => density_call.result = Rat(0, 1)
           /\ n >= 2 => density_call.result =
                          Rat(Cardinality(SharingPairs(list)), (n * (n - 1)) \div 2)
           /\ InUnit(density_call.result)

\* Three contacts, the first two alike in industry, location and company, the
\* third alike with neither: one pair of three
C14_Witness ==
  /\ density_call.called
  /\ Len(density_call.contacts) = 3
  /\ density_call.contacts[1] = density_call.contacts[2]
  /\ density_call.contacts[1] =
       [industry |-> Str_Tech, location |-> Str_Madrid, company |-> Str_Acme]
  /\ density_call.contacts[3].industry = Str_tech_lower
  /\ density_call.contacts[3].location = NULL
  /\ density_call.result = Rat(1, 3)

\* C15: logout ends the session: when a logout made with a token is answered
\* 200, a request for the profile that presents the same Authorization header
\* next is answered 401.
C15_LogoutEndsSession ==
  [][(/\ auth_resp.route = "logout"
      /\ auth_resp.status = 200
      /\ auth_resp'.route = "get_profile"
      /\ auth_resp'.header = auth_resp.header)
     => auth_resp'.status = 401]_vars

\* C16: in every reachable state, whatever the interleaving of the threads
\* that serve the login and register requests of one address, _rate_limits
\* holds at most 5 attempts of the last 15 minutes for a login identifier and
\* at most 3 of the last 60 minutes for a register identifier.
RecordedWithin(identifier, window_minutes) ==
  Len(SelectSeq(AttemptsOf(rate_limits, identifier),
                LAMBDA attempt : attempt > now - window_minutes))

C16_RecordedNeverExceedsLimit ==
  \A identifier \in DOMAIN rate_limits :
    /\ identifier[1] = "login" => RecordedWithin(identifier, 15) <= 5
    /\ identifier[1] = "register" => RecordedWithin(identifier, 60) <= 3

====
